---- MODULE Spec2Model ----
(***************************************************************************)
(* A model of the batch-download engine of jamabandi-scraper:              *)
(*   - ProgressTracker (scraper/http_scraper.py), the durable progress     *)
(*     store, with its atomic save broken into the file-system steps a     *)
(*     process kill can separate;                                          *)
(*   - run_concurrent / _worker_run / download_nakal, the dispatcher and   *)
(*     its workers;                                                        *)
(*   - RateLimiter (scraper/rate_limiter.py);                              *)
(*   - RetryManager (scraper/retry_manager.py);                            *)
(*   - PDFValidator (scraper/validator.py);                                *)
(*   - SessionManager (scraper/session_manager.py);                        *)
(*   - setup_form_selections and main (scraper/http_scraper.py).           *)
(* The specifications share the variables: Spec (the tracker's API called  *)
(* from several threads, with kills and restarts), FaultSpec (the same API *)
(* with writes that fail), LoadSpec (the tracker constructed on whatever   *)
(* file it finds), RunSpec (one run of run_concurrent), SeqSpec (one run   *)
(* of the sequential run()), SplitSpec (the batch split as a pure function *)
(* of its inputs), LimiterSpec (record_response), RetrySpec (the retry     *)
(* manager's API), E2ESpec (a fixed run followed by retry_all),            *)
(* ValidatorSpec (both validations of one file), SessionSpec (the session  *)
(* manager's API), MainSpec (RunSpec followed by the return of main),      *)
(* FormSpec (the five postbacks of setup_form_selections), LockSpec (the   *)
(* tracker's calls statement by statement under its lock), WaitSpec (the   *)
(* limiter's calls under its lock, with the sleep of wait),                *)
(* SessionThreadsSpec (the session manager's calls and callbacks under     *)
(* threads), LoopsSpec (RunSpec and SeqSpec together) and NakalFaultSpec   *)
(* (one download_nakal call with writes that fail).                        *)
(***************************************************************************)
EXTENDS Integers, Sequences, FiniteSets, TLC

(***************************************************************************)
(* Bounds of the model.                                                    *)
(***************************************************************************)
MaxId == 3            \* khewat ids of the tracker specification are 1..MaxId
MaxOps == 3           \* API calls per behaviour of Spec (also the clock's range)
NumThreads == 2       \* threads calling the tracker in Spec
MaxSaveInterval == 2  \* save_interval is drawn from 1..MaxSaveInterval in Spec
MaxBytes == 2         \* bytes_downloaded arguments are 0 or MaxBytes
RunMaxId == 3         \* khewat_end of the modelled run (khewat_start is 1)
MaxWorkers == 2       \* num_workers is drawn from 1..MaxWorkers in RunSpec

Ids == 1..MaxId
Threads == 1..NumThreads
ByteSizes == {0, MaxBytes}
Errors == {"Timeout", "No record found"}

VARIABLES
    \* ---- ProgressTracker ----
    data,           \* self.data
    unsaved,        \* self._unsaved_count
    save_interval,  \* self.save_interval
    lock,           \* self._lock: 0 when free, else the holding thread
    pc,             \* per thread: where it is inside a tracker call
    fs,             \* the two files: progress file and its temp file
    alive,          \* FALSE after the process was killed
    clock,          \* datetime.now(): advances with every API call
    last,           \* the last API call made and how it ended (history)
    hist            \* the number of mark calls since the progress file was
                    \* last replaced (history)

VARIABLES
    \* ---- run_concurrent ----
    rpc,            \* where the dispatcher is
    num_workers,    \* the num_workers argument
    pending,        \* pending
    batches,        \* batches
    wk,             \* per worker (index worker_id + 1): its loop position,
                    \* its scraper's form_initialized flag, and history
    loaded          \* the tracker's data as loaded at construction (history)

VARIABLES
    \* ---- RateLimiter (delays in tenths of a second, times in seconds) ----
    min_delay,       \* self.min_delay
    max_delay,       \* self.max_delay
    current_delay,   \* self.current_delay
    window_size,     \* self.window_size
    response_times,  \* self._response_times (milliseconds)
    error_count,     \* self._error_count
    backoff_until,   \* self._backoff_until
    now,             \* time.time()
    backoffs,        \* backoff times of the current run of consecutive 429
                     \* responses, the last three (history)
    lcall            \* the status code of the last record_response (history)

VARIABLES
    \* ---- RetryManager ----
    failures,        \* self._failures: the FailedItem list
    max_retries,     \* self.max_retries
    rt,              \* the retry_all call in progress: its locals
    rops,            \* number of calls made on the manager
    rlast            \* the last call or fetch, and what it returned (history)

VARIABLES
    \* ---- ProgressTracker, statement by statement ----
    th,              \* per thread: the tracker call it is in and its locals
    calls            \* the calls made, in the order they took self._lock (history)

VARIABLES
    \* ---- RateLimiter.wait() and the limiter's lock ----
    llock,           \* self._lock of the limiter: 0 or the thread holding it
    wpc,             \* per thread: its position in wait/record_response/stats
    last_request_time, \* self._last_request_time (tenths of a second)
    wops,            \* number of limiter calls started
    wlast            \* the last call completed, and who slept meanwhile (history)

VARIABLES
    \* ---- JamabandiHTTPScraper form state ----
    form             \* the scraper's tokens and flag, and the postbacks sent

VARIABLES
    \* ---- main() ----
    exit_status      \* the status the process ends with, -1 while it runs

VARIABLES
    \* ---- PDFValidator ----
    vfile,           \* the file handed to the validator
    vresult          \* what validate_pdf and validate_pdf_deep returned

VARIABLES
    \* ---- SessionManager ----
    sess,            \* the manager: state, cookie, callbacks fired
    slast,           \* the last call and the state it found (history)
    slock,           \* self._lock of the manager: 0 or the thread holding it
    sth,             \* per thread: the manager calls it is in, innermost last
    slog             \* what has happened on the manager so far (history)

trackerVars ==
    <<data, unsaved, save_interval, lock, pc, fs, alive, clock, last, hist>>

limiterVars == <<min_delay, max_delay, current_delay, window_size, response_times,
                 error_count, backoff_until, now, backoffs, lcall>>

runVars == <<rpc, num_workers, pending, batches, wk, loaded>>

retryVars == <<failures, max_retries, rt, rops, rlast>>

lockVars == <<th, calls>>

waitVars == <<llock, wpc, last_request_time, wops, wlast>>

formVars == <<form>>

mainVars == <<exit_status>>

validatorVars == <<vfile, vresult>>

sessionVars == <<sess, slast, slock, sth, slog>>

extVars == <<lockVars, waitVars, formVars, mainVars, validatorVars, sessionVars>>

vars == <<trackerVars, runVars, limiterVars, retryVars, extVars>>

(***************************************************************************)
(* Helpers on sequences.                                                   *)
(***************************************************************************)
Range(s) == {s[i] : i \in DOMAIN s}

Min(a, b) == IF a <= b THEN a ELSE b

Max(a, b) == IF a >= b THEN a ELSE b

SetMin(S) == CHOOSE x \in S : \A y \in S : x <= y

RECURSIVE RemoveFirst(_, _)
RemoveFirst(s, x) ==
    IF s = <<>> THEN <<>>
    ELSE IF Head(s) = x THEN Tail(s)
    ELSE <<Head(s)>> \o RemoveFirst(Tail(s), x)

\* list.sort() on a list of ints: the ascending permutation of the list.
RECURSIVE SortList(_)
SortList(s) ==
    IF s = <<>> THEN <<>>
    ELSE LET m == SetMin(Range(s))
         IN  <<m>> \o SortList(RemoveFirst(s, m))

\* str(khewat): the key under which an id is stored in data["failed"].
StrKey(k) == ToString(k)

(***************************************************************************)
(* ProgressTracker: the in-memory record.                                  *)
(***************************************************************************)
NoFailed == [s \in {} |-> ""]

\* self.data as built by __init__ (None is modelled as 0 for the timestamps,
\* which are clock readings >= 1; {} as "unset" for the config).
DefaultData ==
    [config |-> "unset",
     completed |-> <<>>,
     failed |-> NoFailed,
     last_updated |-> 0,
     start_time |-> 0,
     download_count |-> 0,
     bytes_downloaded |-> 0]

\* A file: whether it exists, whether its bytes decode as UTF-8 text, whether
\* the text is a complete JSON document, and the document.
Absent ==
    [exists |-> FALSE, text |-> TRUE, complete |-> FALSE, content |-> DefaultData]

\* The two paths of _atomic_save.
filepath == "progress.json"

temp_path_direct == "progress.json"

temp_path == "progress.json.tmp"

Paths == {"progress.json", "progress.json.tmp"}

\* load() (lines 168-202): reading a file whose bytes are not UTF-8 raises
\* UnicodeDecodeError, which the except clause of line 201 does not name.
LoadRaises(f) == f.exists /\ ~f.text

\* load(): the file's content when it exists and parses, else the defaults.
Load(f) ==
    IF f.exists /\ f.text /\ f.complete THEN f.content ELSE DefaultData

\* mark_complete's in-memory part (lines 247-252).
MarkCompleteNoSort(d, k, b) ==
    LET fresh == k \notin Range(d.completed)
        c1 == IF fresh THEN Append(d.completed, k) ELSE d.completed
    IN  [d EXCEPT !.completed = c1,
                  !.download_count = IF fresh THEN @ + 1 ELSE @,
                  !.bytes_downloaded = IF fresh THEN @ + b ELSE @,
                  !.failed = [s \in DOMAIN d.failed \ {StrKey(k)} |-> d.failed[s]]]

MarkCompleteAlwaysCount(d, k, b) ==
    LET fresh == k \notin Range(d.completed)
        c1 == IF fresh THEN SortList(Append(d.completed, k)) ELSE d.completed
    IN  [d EXCEPT !.completed = c1,
                  !.download_count = @ + 1,
                  !.bytes_downloaded = @ + b,
                  !.failed = [s \in DOMAIN d.failed \ {StrKey(k)} |-> d.failed[s]]]

MarkCompleteData(d, k, b) ==
    LET fresh == k \notin Range(d.completed)
        c1 == IF fresh THEN SortList(Append(d.completed, k)) ELSE d.completed
    IN  [d EXCEPT !.completed = c1,
                  !.download_count = IF fresh THEN @ + 1 ELSE @,
                  !.bytes_downloaded = IF fresh THEN @ + b ELSE @,
                  !.failed = [s \in DOMAIN d.failed \ {StrKey(k)} |-> d.failed[s]]]

\* mark_failed's in-memory part (line 266).
MarkFailedData(d, k, e) ==
    [d EXCEPT !.failed = [s \in DOMAIN d.failed \cup {StrKey(k)} |->
                             IF s = StrKey(k) THEN e ELSE d.failed[s]]]

\* set_config's in-memory part (lines 227-235).
SetConfigData(d, stamp) ==
    [d EXCEPT !.config = "set",
              !.start_time = IF @ = 0 THEN stamp ELSE @]

\* get_pending (lines 275-276): the loop over range(start, end + 1).
RECURSIVE PendingFromExclusive(_, _, _)
PendingFromExclusive(completed, k, end) ==
    IF k >= end THEN <<>>
    ELSE (IF k \in Range(completed) THEN <<>> ELSE <<k>>)
         \o PendingFromExclusive(completed, k + 1, end)

RECURSIVE PendingFrom(_, _, _)
PendingFrom(completed, k, end) ==
    IF k > end THEN <<>>
    ELSE (IF k \in Range(completed) THEN <<>> ELSE <<k>>)
         \o PendingFrom(completed, k + 1, end)

GetPendingListExclusive(completed, start, end) ==
    PendingFromExclusive(completed, start, end)

GetPendingList(completed, start, end) == PendingFrom(completed, start, end)

(***************************************************************************)
(* ProgressTracker: the calls, as steps of a thread.  Every call runs      *)
(* under self._lock; a call that saves keeps the lock across the three     *)
(* file-system steps of _atomic_save.                                      *)
(***************************************************************************)
NoCall ==
    [op |-> "none", id |-> 0, end |-> 0, dup |-> FALSE, ret |-> <<>>,
     triggered |-> FALSE, raised |-> FALSE]

NoHist == [marks |-> 0]

CanCall(t) ==
    /\ alive
    /\ pc[t] = "idle"
    /\ lock = 0

\* The tail shared by mark_complete and mark_failed (lines 253-256, 267-270):
\* count the change, and start a save when the interval is reached.
CountAndMaybeSaveLate(t, d) ==
    /\ clock' = clock + 1
    /\ IF unsaved + 1 > save_interval
       THEN /\ data' = [d EXCEPT !.last_updated = clock + 1]
            /\ unsaved' = unsaved + 1
            /\ lock' = t
            /\ pc' = [pc EXCEPT ![t] = "save_open"]
       ELSE /\ data' = d
            /\ unsaved' = unsaved + 1
            /\ lock' = 0
            /\ pc' = pc
    /\ hist' = [hist EXCEPT !.marks = @ + 1]
    /\ UNCHANGED <<save_interval, fs, alive>>

CountAndMaybeSave(t, d) ==
    /\ clock' = clock + 1
    /\ IF unsaved + 1 >= save_interval
       THEN /\ data' = [d EXCEPT !.last_updated = clock + 1]
            /\ unsaved' = unsaved + 1
            /\ lock' = t
            /\ pc' = [pc EXCEPT ![t] = "save_open"]
       ELSE /\ data' = d
            /\ unsaved' = unsaved + 1
            /\ lock' = 0
            /\ pc' = pc
    /\ hist' = [hist EXCEPT !.marks = @ + 1]
    /\ UNCHANGED <<save_interval, fs, alive>>

MarkComplete(t, k, b) ==
    /\ CanCall(t)
    /\ CountAndMaybeSave(t, MarkCompleteData(data, k, b))
    /\ last' = [NoCall EXCEPT !.op = "mark_complete", !.id = k,
                              !.dup = (k \in Range(data.completed)),
                              !.triggered = (unsaved + 1 >= save_interval)]

MarkFailed(t, k, e) ==
    /\ CanCall(t)
    /\ CountAndMaybeSave(t, MarkFailedData(data, k, e))
    /\ last' = [NoCall EXCEPT !.op = "mark_failed", !.id = k,
                              !.dup = (k \in Range(data.completed)),
                              !.triggered = (unsaved + 1 >= save_interval)]

\* flush (lines 217-222).
FlushOnlyAtInterval(t) ==
    /\ CanCall(t)
    /\ clock' = clock + 1
    /\ IF unsaved >= save_interval
       THEN /\ data' = [data EXCEPT !.last_updated = clock + 1]
            /\ lock' = t
            /\ pc' = [pc EXCEPT ![t] = "save_open"]
       ELSE /\ UNCHANGED <<data, lock, pc>>
    /\ last' = [NoCall EXCEPT !.op = "flush", !.dup = (unsaved = 0),
                              !.triggered = (unsaved >= save_interval)]
    /\ UNCHANGED <<unsaved, save_interval, fs, alive, hist>>

Flush(t) ==
    /\ CanCall(t)
    /\ clock' = clock + 1
    /\ IF unsaved > 0
       THEN /\ data' = [data EXCEPT !.last_updated = clock + 1]
            /\ lock' = t
            /\ pc' = [pc EXCEPT ![t] = "save_open"]
       ELSE /\ UNCHANGED <<data, lock, pc>>
    /\ last' = [NoCall EXCEPT !.op = "flush", !.dup = (unsaved = 0),
                              !.triggered = (unsaved > 0)]
    /\ UNCHANGED <<unsaved, save_interval, fs, alive, hist>>

\* set_config (lines 224-237): always saves.
SetConfig(t) ==
    /\ CanCall(t)
    /\ clock' = clock + 1
    /\ data' = [SetConfigData(data, clock + 1) EXCEPT !.last_updated = clock + 1]
    /\ lock' = t
    /\ pc' = [pc EXCEPT ![t] = "save_open"]
    /\ last' = [NoCall EXCEPT !.op = "set_config", !.triggered = TRUE]
    /\ UNCHANGED <<unsaved, save_interval, fs, alive, hist>>

\* get_pending (lines 272-276).
GetPending(t, start, end) ==
    /\ CanCall(t)
    /\ clock' = clock + 1
    /\ last' = [NoCall EXCEPT !.op = "get_pending", !.id = start,
                              !.end = end,
                              !.ret = GetPendingList(data.completed, start, end)]
    /\ UNCHANGED <<data, unsaved, save_interval, lock, pc, fs, alive, hist>>

\* _atomic_save, line 213: open(temp_path, "w") creates or truncates the file.
SaveOpen(t) ==
    /\ alive
    /\ pc[t] = "save_open"
    /\ fs' = [fs EXCEPT ![temp_path] =
                 [exists |-> TRUE, text |-> TRUE, complete |-> FALSE,
                  content |-> DefaultData]]
    /\ pc' = [pc EXCEPT ![t] = "save_dump"]
    /\ UNCHANGED <<data, unsaved, save_interval, lock, alive, clock, last, hist>>

\* _atomic_save, line 214: json.dump and the close of the with block.
SaveDump(t) ==
    /\ alive
    /\ pc[t] = "save_dump"
    /\ fs' = [fs EXCEPT ![temp_path] =
                 [exists |-> TRUE, text |-> TRUE, complete |-> TRUE, content |-> data]]
    /\ pc' = [pc EXCEPT ![t] = "save_replace"]
    /\ UNCHANGED <<data, unsaved, save_interval, lock, alive, clock, last, hist>>

\* _atomic_save, line 215: the rename; then the caller resets the counter and
\* leaves the with self._lock block.
SaveReplace(t) ==
    /\ alive
    /\ pc[t] = "save_replace"
    /\ fs' = IF temp_path = filepath THEN fs
             ELSE [fs EXCEPT ![filepath] = fs[temp_path], ![temp_path] = Absent]
    /\ unsaved' = 0
    /\ lock' = 0
    /\ pc' = [pc EXCEPT ![t] = "idle"]
    /\ hist' = NoHist
    /\ UNCHANGED <<data, save_interval, alive, clock, last>>

\* _atomic_save raises (the directory cannot be made, the temp file cannot
\* be opened or written, the rename is refused): the exception leaves the
\* with self._lock block of the caller, so the lock is released and the
\* line that resets _unsaved_count is not reached.  What was written to the
\* temp file stays there.
SaveFailSwallowed(t) ==
    /\ alive
    /\ pc[t] \in {"save_open", "save_dump", "save_replace"}
    /\ unsaved' = 0
    /\ lock' = 0
    /\ pc' = [pc EXCEPT ![t] = "idle"]
    /\ UNCHANGED <<data, save_interval, fs, alive, clock, last, hist>>

SaveFail(t) ==
    /\ alive
    /\ pc[t] \in {"save_open", "save_dump", "save_replace"}
    /\ lock' = 0
    /\ pc' = [pc EXCEPT ![t] = "idle"]
    /\ last' = [last EXCEPT !.raised = TRUE]
    /\ UNCHANGED <<data, unsaved, save_interval, fs, alive, clock, hist>>

\* The process is killed: memory is lost, the files stay as they are.
Kill ==
    /\ alive
    /\ alive' = FALSE
    /\ UNCHANGED <<data, unsaved, save_interval, lock, pc, fs, clock, last, hist>>

\* A new process constructs the tracker on the same file (__init__, load());
\* when load() raises, no tracker comes into being.
Restart ==
    /\ ~alive
    /\ alive' = ~LoadRaises(fs[filepath])
    /\ data' = Load(fs[filepath])
    /\ unsaved' = 0
    /\ lock' = 0
    /\ pc' = [t \in Threads |-> "idle"]
    /\ last' = [NoCall EXCEPT !.op = "construct",
                              !.raised = LoadRaises(fs[filepath])]
    /\ hist' = NoHist
    /\ UNCHANGED <<save_interval, fs, clock>>

TrackerInit ==
    /\ fs = [p \in Paths |-> Absent]
    /\ data = Load(fs[filepath])
    /\ unsaved = 0
    /\ save_interval \in 1..MaxSaveInterval
    /\ lock = 0
    /\ pc = [t \in Threads |-> "idle"]
    /\ alive = TRUE
    /\ clock = 0
    /\ last = NoCall
    /\ hist = NoHist

\* The dispatcher's variables when no run is modelled.
RunIdle ==
    /\ rpc = "none"
    /\ num_workers = 0
    /\ pending = <<>>
    /\ batches = <<>>
    /\ wk = <<>>
    /\ loaded = DefaultData

\* The rate limiter's variables when no limiter is modelled.
LimiterIdle ==
    /\ min_delay = 0
    /\ max_delay = 0
    /\ current_delay = 0
    /\ window_size = 0
    /\ response_times = <<>>
    /\ error_count = 0
    /\ backoff_until = 0
    /\ now = 0
    /\ backoffs = <<>>
    /\ lcall = 0

\* RetryManager.__init__ (lines 44-48) with max_retries m; no call made yet.
NoRetryCall ==
    [op |-> "none", id |-> 0, kind |-> "none", ret |-> <<>>, counts |-> <<0, 0, 0>>]

NoRetryAll == [pc |-> "idle", retryable |-> <<>>, idx |-> 0, succeeded |-> 0, failed |-> 0]

RetryManagerNew(m) ==
    /\ failures = <<>>
    /\ max_retries = m
    /\ rt = NoRetryAll
    /\ rops = 0
    /\ rlast = NoRetryCall

\* The retry manager's variables when none is modelled.
RetryIdle == RetryManagerNew(0)

\* The variables of the components a specification does not model.
LockIdle == th = <<>> /\ calls = <<>>

WaitIdle ==
    /\ llock = 0
    /\ wpc = <<>>
    /\ last_request_time = 0
    /\ wops = 0
    /\ wlast = <<>>

FormIdle == form = <<>>

MainIdle == exit_status = -1

ValidatorIdle == vfile = <<>> /\ vresult = <<>>

SessionThreadsIdle == slock = 0 /\ sth = <<>> /\ slog = <<>>

SessionIdle == sess = <<>> /\ slast = <<>> /\ SessionThreadsIdle

ExtIdle == LockIdle /\ WaitIdle /\ FormIdle /\ MainIdle /\ ValidatorIdle /\ SessionIdle

Init == TrackerInit /\ RunIdle /\ LimiterIdle /\ RetryIdle /\ ExtIdle

\* Spec explores MaxOps calls per behaviour.
Budget == clock < MaxOps

Next ==
    \/ /\ Budget
       /\ \E t \in Threads, k \in Ids, b \in ByteSizes : MarkComplete(t, k, b)
       /\ UNCHANGED <<runVars, limiterVars, retryVars, extVars>>
    \/ /\ Budget
       /\ \E t \in Threads, k \in Ids, e \in Errors : MarkFailed(t, k, e)
       /\ UNCHANGED <<runVars, limiterVars, retryVars, extVars>>
    \/ /\ Budget
       /\ \E t \in Threads : Flush(t)
       /\ UNCHANGED <<runVars, limiterVars, retryVars, extVars>>
    \/ /\ Budget
       /\ \E t \in Threads : SetConfig(t)
       /\ UNCHANGED <<runVars, limiterVars, retryVars, extVars>>
    \/ /\ Budget
       /\ \E t \in Threads, s \in {1, 2}, e \in {1, MaxId} : GetPending(t, s, e)
       /\ UNCHANGED <<runVars, limiterVars, retryVars, extVars>>
    \/ (\E t \in Threads : SaveOpen(t)) /\ UNCHANGED <<runVars, limiterVars, retryVars, extVars>>
    \/ (\E t \in Threads : SaveDump(t)) /\ UNCHANGED <<runVars, limiterVars, retryVars, extVars>>
    \/ (\E t \in Threads : SaveReplace(t)) /\ UNCHANGED <<runVars, limiterVars, retryVars, extVars>>
    \/ Kill /\ UNCHANGED <<runVars, limiterVars, retryVars, extVars>>
    \/ Restart /\ UNCHANGED <<runVars, limiterVars, retryVars, extVars>>

Spec == Init /\ [][Next]_vars

\* The tracker's calls on a disk whose writes may fail.
FaultNext ==
    \/ /\ Budget
       /\ \E t \in Threads, k \in Ids, b \in ByteSizes : MarkComplete(t, k, b)
       /\ UNCHANGED <<runVars, limiterVars, retryVars, extVars>>
    \/ /\ Budget
       /\ \E t \in Threads, k \in Ids, e \in Errors : MarkFailed(t, k, e)
       /\ UNCHANGED <<runVars, limiterVars, retryVars, extVars>>
    \/ /\ Budget
       /\ \E t \in Threads : Flush(t)
       /\ UNCHANGED <<runVars, limiterVars, retryVars, extVars>>
    \/ /\ Budget
       /\ \E t \in Threads : SetConfig(t)
       /\ UNCHANGED <<runVars, limiterVars, retryVars, extVars>>
    \/ (\E t \in Threads : SaveOpen(t)) /\ UNCHANGED <<runVars, limiterVars, retryVars, extVars>>
    \/ (\E t \in Threads : SaveDump(t)) /\ UNCHANGED <<runVars, limiterVars, retryVars, extVars>>
    \/ (\E t \in Threads : SaveReplace(t)) /\ UNCHANGED <<runVars, limiterVars, retryVars, extVars>>
    \/ (\E t \in Threads : SaveFail(t)) /\ UNCHANGED <<runVars, limiterVars, retryVars, extVars>>

FaultSpec == Init /\ [][FaultNext]_vars

(***************************************************************************)
(* run_concurrent: the batch split.                                        *)
(***************************************************************************)
\* The ascending list of a set of ids.
RECURSIVE SeqOfSet(_)
SeqOfSet(S) ==
    IF S = {} THEN <<>>
    ELSE LET m == SetMin(S) IN <<m>> \o SeqOfSet(S \ {m})

\* The loop of lines 848-851; pending[start:end] is SubSeq(pending, start + 1, end).
RECURSIVE BatchLoopNoRemainder(_, _, _, _, _, _)
BatchLoopNoRemainder(p, w, start, batch_size, remainder, actual_workers) ==
    IF w >= actual_workers THEN <<>>
    ELSE LET end == start + batch_size
         IN  <<SubSeq(p, start + 1, end)>>
             \o BatchLoopNoRemainder(p, w + 1, end, batch_size, remainder, actual_workers)

RECURSIVE BatchLoop(_, _, _, _, _, _)
BatchLoop(p, w, start, batch_size, remainder, actual_workers) ==
    IF w >= actual_workers THEN <<>>
    ELSE LET end == start + batch_size + (IF w < remainder THEN 1 ELSE 0)
         IN  <<SubSeq(p, start + 1, end)>>
             \o BatchLoop(p, w + 1, end, batch_size, remainder, actual_workers)

\* Lines 835 and 844-851, for a non-empty pending list.
SplitBatchesNoRemainder(p, n) ==
    LET actual_workers == Min(n, Len(p))
    IN  BatchLoopNoRemainder(p, 0, 0, Len(p) \div actual_workers,
                             Len(p) % actual_workers, actual_workers)

SplitBatches(p, n) ==
    LET actual_workers == Min(n, Len(p))
    IN  BatchLoop(p, 0, 0, Len(p) \div actual_workers,
                  Len(p) % actual_workers, actual_workers)

(***************************************************************************)
(* download_nakal: what each kind of response makes it do.                 *)
(***************************************************************************)
Outcomes ==
    {"http_error", "expired", "no_record", "error_page", "pdf", "html",
     "small", "timeout", "exception"}

\* The error text handed to mark_failed (lines 588, 607, 620, 659, 671, 676).
NakalError(o) ==
    CASE o = "http_error" -> "HTTP 500"
      [] o = "no_record" -> "No record found"
      [] o = "error_page" -> "Error page - needs retry"
      [] o = "small" -> "Small response: 120 bytes"
      [] o = "timeout" -> "Timeout"
      [] o = "exception" -> "Connection aborted"
      [] OTHER -> ""

\* Which progress-store update download_nakal makes.
NakalMarksExpiryFailed(o) ==
    IF o \in {"pdf", "html"} THEN "complete" ELSE "failed"

NakalMarks(o) ==
    IF o \in {"pdf", "html"} THEN "complete"
    ELSE IF o = "expired" THEN "none"
    ELSE "failed"

\* Its return value: False only for the session-expired signal (line 599).
NakalReturns(o) == o # "expired"

\* Whether it clears self.form_initialized (lines 623 and 666).
NakalClearsFormNotSmall(o) == o \in {"error_page", "pdf", "html"}

NakalClearsForm(o) == o \in {"error_page", "pdf", "html", "small"}

(***************************************************************************)
(* run_concurrent and _worker_run.  Thread 0 is the dispatcher, thread w   *)
(* (1..actual_workers) the worker with worker_id w - 1.                    *)
(***************************************************************************)
khewat_start == 1

DefaultMaxRetries == 3

khewat_end == RunMaxId

DefaultSaveInterval == 5

RunThreads == 0..MaxWorkers

NewWorker ==
    [pc |-> "loop", i |-> 1, form_initialized |-> FALSE, ok |-> {}, tried |-> {}]

WorkerEnded(w) ==
    wk[w].pc \in {"finished", "stopped_init", "stopped_setup", "stopped_expired",
                  "crashed"}

\* A progress file left by an earlier run: ids of C completed, ids of F failed.
PriorFile(C, F) ==
    [exists |-> TRUE, text |-> TRUE, complete |-> TRUE,
     content |-> [DefaultData EXCEPT
                    !.config = "set",
                    !.completed = SeqOfSet(C),
                    !.failed = [s \in {StrKey(k) : k \in F} |-> "Timeout"],
                    !.download_count = Cardinality(C),
                    !.start_time = 1,
                    !.last_updated = 1]]

\* The same file with the failed ids recorded with the error e.
PriorFileFailedAs(C, F, e) ==
    [PriorFile(C, F) EXCEPT !.content.failed = [s \in DOMAIN @ |-> e]]

PriorFiles ==
    {Absent} \cup {PriorFileFailedAs(C, F, e) :
                      C \in SUBSET {2}, F \in SUBSET {RunMaxId}, e \in Errors}

\* Lines 825-826: the tracker is constructed (and loads the file), then
\* set_config saves.
RunSetConfig ==
    /\ rpc = "start"
    /\ SetConfig(0)
    /\ rpc' = "get_pending"
    /\ UNCHANGED <<limiterVars, retryVars, extVars, num_workers, pending, batches, wk, loaded>>

\* A dispatcher that leaves the ids of the failed map out of pending.
RunSplitToSkipsFailed(end) ==
    /\ rpc = "get_pending"
    /\ CanCall(0)
    /\ LET p == SelectSeq(GetPendingList(data.completed, khewat_start, end),
                       LAMBDA k : StrKey(k) \notin DOMAIN data.failed)
       IN  /\ pending' = p
           /\ IF p = <<>>
              THEN /\ rpc' = "nothing_pending"
                   /\ UNCHANGED <<batches, wk>>
              ELSE /\ rpc' = "workers"
                   /\ batches' = SplitBatches(p, num_workers)
                   /\ wk' = [w \in 1..Len(SplitBatches(p, num_workers)) |-> NewWorker]
    /\ UNCHANGED <<trackerVars, limiterVars, retryVars, extVars, num_workers, loaded>>

\* Lines 829-871: pending, the split and the submission of the workers.
RunSplitTo(end) ==
    /\ rpc = "get_pending"
    /\ CanCall(0)
    /\ LET p == GetPendingList(data.completed, khewat_start, end)
       IN  /\ pending' = p
           /\ IF p = <<>>
              THEN /\ rpc' = "nothing_pending"
                   /\ UNCHANGED <<batches, wk>>
              ELSE /\ rpc' = "workers"
                   /\ batches' = SplitBatches(p, num_workers)
                   /\ wk' = [w \in 1..Len(SplitBatches(p, num_workers)) |-> NewWorker]
    /\ UNCHANGED <<trackerVars, limiterVars, retryVars, extVars, num_workers, loaded>>

RunSplit == RunSplitTo(khewat_end)

\* _worker_run, lines 785-799: the top of one loop iteration.
WorkerLoop(w) ==
    /\ rpc = "workers"
    /\ wk[w].pc = "loop"
    /\ CanCall(w)
    /\ IF wk[w].i > Len(batches[w])
       THEN wk' = [wk EXCEPT ![w].pc = "finished"]
       ELSE IF batches[w][wk[w].i] \in Range(data.completed)
       THEN wk' = [wk EXCEPT ![w].i = @ + 1]
       ELSE IF ~wk[w].form_initialized
       THEN wk' = [wk EXCEPT ![w].pc = "initialize_form"]
       ELSE wk' = [wk EXCEPT ![w].pc = "download_nakal"]
    /\ UNCHANGED <<trackerVars, limiterVars, retryVars, extVars, rpc, num_workers, pending, batches, loaded>>

\* initialize_form (lines 408-444): true, false, or an exception of the
\* request, which nothing in the worker catches.
WorkerInitializeForm(w, r) ==
    /\ rpc = "workers"
    /\ wk[w].pc = "initialize_form"
    /\ wk' = [wk EXCEPT ![w].pc =
                 CASE r = "true" -> "setup_form_selections"
                   [] r = "false" -> "stopped_init"
                   [] OTHER -> "crashed"]
    /\ UNCHANGED <<trackerVars, limiterVars, retryVars, extVars, rpc, num_workers, pending, batches, loaded>>

\* A worker that goes on to fetch although setup_form_selections returned false.
WorkerSetupFormIgnoresResult(w, r) ==
    /\ rpc = "workers"
    /\ wk[w].pc = "setup_form_selections"
    /\ wk' = [wk EXCEPT ![w].pc =
                 CASE r = "true" -> "download_nakal"
                   [] r = "false" -> "download_nakal"
                   [] OTHER -> "crashed",
                        ![w].form_initialized = (r = "true")]
    /\ UNCHANGED <<trackerVars, limiterVars, retryVars, extVars, rpc, num_workers, pending, batches, loaded>>

\* setup_form_selections (lines 446-541): sets the flag when it returns true.
WorkerSetupForm(w, r) ==
    /\ rpc = "workers"
    /\ wk[w].pc = "setup_form_selections"
    /\ wk' = [wk EXCEPT ![w].pc =
                 CASE r = "true" -> "download_nakal"
                   [] r = "false" -> "stopped_setup"
                   [] OTHER -> "crashed",
                        ![w].form_initialized = (r = "true")]
    /\ UNCHANGED <<trackerVars, limiterVars, retryVars, extVars, rpc, num_workers, pending, batches, loaded>>

\* download_nakal(khewat) with a response of kind o (lines 543-678), and the
\* worker's reaction to its return value (lines 801-805).  The tracker call
\* it makes is finished when pc[w] is "idle" again.
WorkerDownloadNakal(w, o) ==
    /\ rpc = "workers"
    /\ wk[w].pc = "download_nakal"
    /\ LET khewat == batches[w][wk[w].i]
           flag == IF NakalClearsForm(o) THEN FALSE ELSE wk[w].form_initialized
       IN  /\ IF NakalMarks(o) = "none"
              THEN UNCHANGED <<data, unsaved, lock, pc, clock, save_interval, fs, alive, hist>>
              ELSE /\ CanCall(w)
                   /\ CountAndMaybeSave(w,
                        IF NakalMarks(o) = "complete"
                        THEN MarkCompleteData(data, khewat, 0)
                        ELSE MarkFailedData(data, khewat, NakalError(o)))
           /\ wk' = [wk EXCEPT
                       ![w].pc = IF NakalReturns(o) THEN "loop" ELSE "stopped_expired",
                       ![w].i = IF NakalReturns(o) THEN @ + 1 ELSE @,
                       ![w].form_initialized = flag,
                       ![w].tried = @ \cup {khewat},
                       ![w].ok = IF NakalMarks(o) = "complete" THEN @ \cup {khewat} ELSE @]
    /\ UNCHANGED <<last, limiterVars, retryVars, extVars, rpc, num_workers, pending, batches, loaded>>

\* Lines 873-880: every future has completed (a crash is caught and logged).
RunJoinReraises ==
    /\ rpc = "workers"
    /\ \A w \in DOMAIN wk : WorkerEnded(w) /\ pc[w] = "idle"
    /\ rpc' = IF \E w \in DOMAIN wk : wk[w].pc = "crashed" THEN "raised" ELSE "summary"
    /\ UNCHANGED <<trackerVars, limiterVars, retryVars, extVars, num_workers, pending, batches, wk, loaded>>

RunJoin ==
    /\ rpc = "workers"
    /\ \A w \in DOMAIN wk : WorkerEnded(w) /\ pc[w] = "idle"
    /\ rpc' = "summary"
    /\ UNCHANGED <<trackerVars, limiterVars, retryVars, extVars, num_workers, pending, batches, wk, loaded>>

\* Lines 882-894: the final summary; run_concurrent returns.
RunSummary ==
    /\ rpc = "summary"
    /\ rpc' = "done"
    /\ UNCHANGED <<trackerVars, limiterVars, retryVars, extVars, num_workers, pending, batches, wk, loaded>>

RunInit ==
    /\ fs \in {[p \in Paths |-> IF p = filepath THEN f ELSE Absent] : f \in PriorFiles}
    /\ data = Load(fs[filepath])
    /\ loaded = data
    /\ unsaved = 0
    /\ save_interval = DefaultSaveInterval
    /\ lock = 0
    /\ pc = [t \in RunThreads |-> "idle"]
    /\ alive = TRUE
    /\ clock = 1
    /\ last = NoCall
    /\ hist = NoHist
    /\ rpc = "start"
    /\ num_workers \in 1..MaxWorkers
    /\ pending = <<>>
    /\ batches = <<>>
    /\ wk = <<>>
    /\ LimiterIdle
    /\ RetryManagerNew(DefaultMaxRetries)
    /\ ExtIdle

RunNext ==
    \/ RunSetConfig
    \/ RunSplit
    \/ \E w \in DOMAIN wk : WorkerLoop(w)
    \/ \E w \in DOMAIN wk, r \in {"true", "false", "raise"} : WorkerInitializeForm(w, r)
    \/ \E w \in DOMAIN wk, r \in {"true", "false", "raise"} : WorkerSetupForm(w, r)
    \/ \E w \in DOMAIN wk, o \in Outcomes : WorkerDownloadNakal(w, o)
    \/ (\E t \in RunThreads : SaveOpen(t)) /\ UNCHANGED <<runVars, limiterVars, retryVars, extVars>>
    \/ (\E t \in RunThreads : SaveDump(t)) /\ UNCHANGED <<runVars, limiterVars, retryVars, extVars>>
    \/ (\E t \in RunThreads : SaveReplace(t)) /\ UNCHANGED <<runVars, limiterVars, retryVars, extVars>>
    \/ RunJoin
    \/ RunSummary

RunSpec == RunInit /\ [][RunNext]_vars

(***************************************************************************)
(* Sequential mode: main() constructs the tracker and one scraper and      *)
(* calls JamabandiHTTPScraper.run().  Thread 0 is the main thread, wk[1]   *)
(* the scraper.                                                            *)
(***************************************************************************)
\* Line 683.
SeqSetConfig ==
    /\ rpc = "seq_start"
    /\ SetConfig(0)
    /\ rpc' = "seq_initialize_form"
    /\ UNCHANGED <<limiterVars, retryVars, extVars, num_workers, pending, batches, wk, loaded>>

\* Lines 686-688: a false answer makes run() return; an exception of the
\* request leaves run().
SeqInitializeForm(r) ==
    /\ rpc = "seq_initialize_form"
    /\ pc[0] = "idle"
    /\ rpc' = CASE r = "true" -> "seq_setup_form"
                [] r = "false" -> "seq_returned"
                [] OTHER -> "seq_raised"
    /\ UNCHANGED <<trackerVars, limiterVars, retryVars, extVars, num_workers, pending, batches, wk, loaded>>

\* Lines 691-698: setup_form_selections, then get_pending.
SeqSetupForm(r) ==
    /\ rpc = "seq_setup_form"
    /\ CanCall(0)
    /\ IF r = "true"
       THEN LET p == GetPendingList(data.completed, khewat_start, khewat_end)
            IN  /\ pending' = p
                /\ batches' = <<p>>
                /\ wk' = [wk EXCEPT ![1].form_initialized = TRUE]
                /\ rpc' = "seq_loop"
       ELSE /\ rpc' = IF r = "false" THEN "seq_returned" ELSE "seq_raised"
            /\ UNCHANGED <<pending, batches, wk>>
    /\ UNCHANGED <<trackerVars, limiterVars, retryVars, extVars, num_workers, loaded>>

\* Lines 711-713: the top of one loop iteration.
SeqLoop ==
    /\ rpc = "seq_loop"
    /\ pc[0] = "idle"
    /\ rpc' = IF wk[1].i > Len(pending) THEN "summary"
              ELSE IF ~wk[1].form_initialized THEN "seq_reinitialize"
              ELSE "seq_download_nakal"
    /\ UNCHANGED <<trackerVars, limiterVars, retryVars, extVars, num_workers, pending, batches, wk, loaded>>

\* Lines 715-719: a false answer breaks out of the loop.
SeqReinitialize(r) ==
    /\ rpc = "seq_reinitialize"
    /\ rpc' = CASE r = "true" -> "seq_resetup"
                [] r = "false" -> "summary"
                [] OTHER -> "seq_raised"
    /\ UNCHANGED <<trackerVars, limiterVars, retryVars, extVars, num_workers, pending, batches, wk, loaded>>

\* Lines 720-724.
SeqResetup(r) ==
    /\ rpc = "seq_resetup"
    /\ rpc' = CASE r = "true" -> "seq_download_nakal"
                [] r = "false" -> "summary"
                [] OTHER -> "seq_raised"
    /\ wk' = [wk EXCEPT ![1].form_initialized = (r = "true")]
    /\ UNCHANGED <<trackerVars, limiterVars, retryVars, extVars, num_workers, pending, batches, loaded>>

\* Lines 726-732: download_nakal; session expiry breaks out of the loop.
SeqDownloadNakal(o) ==
    /\ rpc = "seq_download_nakal"
    /\ LET khewat == pending[wk[1].i]
           flag == IF NakalClearsForm(o) THEN FALSE ELSE wk[1].form_initialized
       IN  /\ IF NakalMarks(o) = "none"
              THEN UNCHANGED <<data, unsaved, lock, pc, clock, save_interval, fs, alive, hist>>
              ELSE /\ CanCall(0)
                   /\ CountAndMaybeSave(0,
                        IF NakalMarks(o) = "complete"
                        THEN MarkCompleteData(data, khewat, 0)
                        ELSE MarkFailedData(data, khewat, NakalError(o)))
           /\ wk' = [wk EXCEPT
                       ![1].i = IF NakalReturns(o) THEN @ + 1 ELSE @,
                       ![1].form_initialized = flag,
                       ![1].tried = @ \cup {khewat},
                       ![1].ok = IF NakalMarks(o) = "complete" THEN @ \cup {khewat} ELSE @]
           /\ rpc' = IF NakalReturns(o) THEN "seq_loop" ELSE "summary"
    /\ UNCHANGED <<last, limiterVars, retryVars, extVars, num_workers, pending, batches, loaded>>

\* Lines 740-754: the summary; run() returns.
SeqSummary ==
    /\ rpc = "summary"
    /\ pc[0] = "idle"
    /\ rpc' = "done"
    /\ UNCHANGED <<trackerVars, limiterVars, retryVars, extVars, num_workers, pending, batches, wk, loaded>>

\* main(), lines 962-972, on a range with something pending.
SeqInit ==
    /\ fs \in {[p \in Paths |-> IF p = filepath THEN f ELSE Absent] : f \in PriorFiles}
    /\ data = Load(fs[filepath])
    /\ loaded = data
    /\ unsaved = 0
    /\ save_interval = DefaultSaveInterval
    /\ lock = 0
    /\ pc = [t \in RunThreads |-> "idle"]
    /\ alive = TRUE
    /\ clock = 1
    /\ last = NoCall
    /\ hist = NoHist
    /\ rpc = "seq_start"
    /\ num_workers = 1
    /\ pending = <<>>
    /\ batches = <<>>
    /\ wk = <<NewWorker>>
    /\ LimiterIdle
    /\ RetryIdle
    /\ ExtIdle

SeqNext ==
    \/ SeqSetConfig
    \/ \E r \in {"true", "false", "raise"} : SeqInitializeForm(r)
    \/ \E r \in {"true", "false", "raise"} : SeqSetupForm(r)
    \/ SeqLoop
    \/ \E r \in {"true", "false", "raise"} : SeqReinitialize(r)
    \/ \E r \in {"true", "false", "raise"} : SeqResetup(r)
    \/ \E o \in Outcomes : SeqDownloadNakal(o)
    \/ SaveOpen(0) /\ UNCHANGED <<runVars, limiterVars, retryVars, extVars>>
    \/ SaveDump(0) /\ UNCHANGED <<runVars, limiterVars, retryVars, extVars>>
    \/ SaveReplace(0) /\ UNCHANGED <<runVars, limiterVars, retryVars, extVars>>
    \/ SeqSummary

SeqSpec == SeqInit /\ [][SeqNext]_vars

(***************************************************************************)
(* The tracker constructed on whatever file is found at its path.          *)
(***************************************************************************)
\* A file whose text is not a JSON document (json.JSONDecodeError).
GarbledFile ==
    [exists |-> TRUE, text |-> TRUE, complete |-> FALSE, content |-> DefaultData]

\* A file whose bytes are not UTF-8 (UnicodeDecodeError from f.read()).
UndecodableFile ==
    [exists |-> TRUE, text |-> FALSE, complete |-> FALSE, content |-> DefaultData]

FoundFiles == {Absent, PriorFile({2}, {1}), GarbledFile, UndecodableFile}

LoadInit ==
    /\ fs \in {[p \in Paths |-> IF p = filepath THEN f ELSE Absent] : f \in FoundFiles}
    /\ data = DefaultData
    /\ unsaved = 0
    /\ save_interval \in 1..MaxSaveInterval
    /\ lock = 0
    /\ pc = [t \in Threads |-> "idle"]
    /\ alive = FALSE
    /\ clock = 0
    /\ last = NoCall
    /\ hist = NoHist
    /\ RunIdle
    /\ LimiterIdle
    /\ RetryIdle
    /\ ExtIdle

LoadSpec == LoadInit /\ [][Next]_vars

(***************************************************************************)
(* The batch split on its own: inputs drawn from bounded sets.             *)
(***************************************************************************)
SplitMaxId == 10

SplitMaxWorkers == 4

SplitInit ==
    /\ fs = [p \in Paths |-> Absent]
    /\ data = Load(fs[filepath])
    /\ unsaved = 0
    /\ save_interval = DefaultSaveInterval
    /\ lock = 0
    /\ pc = [t \in RunThreads |-> "idle"]
    /\ alive = TRUE
    /\ clock = 0
    /\ last = NoCall
    /\ hist = NoHist
    /\ rpc = "split"
    /\ num_workers \in 1..SplitMaxWorkers
    /\ pending \in {SeqOfSet(S) : S \in SUBSET (1..SplitMaxId) \ {{}}}
    /\ batches = <<>>
    /\ wk = <<>>
    /\ loaded = DefaultData
    /\ LimiterIdle
    /\ RetryIdle
    /\ ExtIdle

\* Lines 835-851 applied to the drawn inputs.
SplitApply ==
    /\ rpc = "split"
    /\ batches' = SplitBatches(pending, num_workers)
    /\ rpc' = "split_done"
    /\ UNCHANGED <<trackerVars, limiterVars, retryVars, extVars, num_workers, pending, wk, loaded>>

SplitNext == SplitApply

SplitSpec == SplitInit /\ [][SplitNext]_vars

(***************************************************************************)
(* RateLimiter.  Delays are counted in tenths of a second and the          *)
(* products of lines 86, 92 and 102 are truncated to that resolution;      *)
(* times are whole seconds.                                                *)
(***************************************************************************)
MaxErrors == 7        \* responses are recorded while _error_count < MaxErrors
MaxWindow == 2        \* window_size is drawn from 1..MaxWindow
MaxNow == 1           \* time.time() runs over 0..MaxNow

BackoffCap == 60

SlowAverage == 1000

MinDelays == {5, 10}

MaxDelays == {10, 25, 50}

StatusCodes == {200, 400, 404, 429, 499, 500}

Latencies == {100, 2000}

RECURSIVE SumSeq(_)
SumSeq(s) == IF s = <<>> THEN 0 ELSE Head(s) + SumSeq(Tail(s))

\* deque(maxlen=window_size).append
DequeAppend(q, x, maxlen) ==
    IF Len(q) >= maxlen THEN Append(Tail(q), x) ELSE Append(q, x)

\* Line 84: backoff_time for the incremented error count.
BackoffTimeUncapped(n) == 2 ^ n

BackoffTime(n) == Min(BackoffCap, 2 ^ n)

\* Line 86.
DelayAfterRateLimit(d, maxd) == Min(maxd, d * 2)

\* Line 92.
DelayAfterErrorUncapped(d, maxd) == (d * 3) \div 2

DelayAfterError(d, maxd) == Min(maxd, (d * 3) \div 2)

\* Line 102.
DelayAfterSuccess(d, mind) == Max(mind, (d * 9) \div 10)

\* _handle_rate_limit (lines 81-87).
HandleRateLimit ==
    /\ error_count < MaxErrors
    /\ error_count' = error_count + 1
    /\ backoff_until' = now + BackoffTime(error_count + 1)
    /\ current_delay' = DelayAfterRateLimit(current_delay, max_delay)
    /\ backoffs' = LET b == Append(backoffs, BackoffTime(error_count + 1))
                   IN  IF Len(b) > 3 THEN Tail(b) ELSE b
    /\ UNCHANGED <<min_delay, max_delay, window_size, response_times, now>>

\* _handle_error (lines 89-92).
HandleError ==
    /\ error_count < MaxErrors
    /\ error_count' = error_count + 1
    /\ current_delay' = DelayAfterError(current_delay, max_delay)
    /\ backoffs' = <<>>
    /\ UNCHANGED <<min_delay, max_delay, window_size, response_times,
                   backoff_until, now>>

\* _handle_success (lines 94-102).
HandleSuccessIgnoresErrors(response_time_ms) ==
    LET times == DequeAppend(response_times, response_time_ms, window_size)
        errors == Max(0, error_count - 1)
    IN  /\ response_times' = times
        /\ error_count' = errors
        /\ current_delay' =
              IF /\ Len(times) >= window_size
                 /\ SumSeq(times) < SlowAverage * Len(times)
              THEN DelayAfterSuccess(current_delay, min_delay)
              ELSE current_delay
        /\ backoffs' = <<>>
        /\ UNCHANGED <<min_delay, max_delay, window_size, backoff_until, now>>

HandleSuccess(response_time_ms) ==
    LET times == DequeAppend(response_times, response_time_ms, window_size)
        errors == Max(0, error_count - 1)
    IN  /\ response_times' = times
        /\ error_count' = errors
        /\ current_delay' =
              IF /\ Len(times) >= window_size
                 /\ SumSeq(times) < SlowAverage * Len(times)
                 /\ errors = 0
              THEN DelayAfterSuccess(current_delay, min_delay)
              ELSE current_delay
        /\ backoffs' = <<>>
        /\ UNCHANGED <<min_delay, max_delay, window_size, backoff_until, now>>

\* record_response (lines 71-79); other 4xx statuses change nothing.
RecordResponseClientAsError(status_code, response_time_ms) ==
    IF status_code = 429 THEN HandleRateLimit
    ELSE IF status_code >= 400 THEN HandleError
    ELSE HandleSuccess(response_time_ms)

RecordResponse(status_code, response_time_ms) ==
    IF status_code = 429 THEN HandleRateLimit
    ELSE IF status_code >= 500 THEN HandleError
    ELSE IF status_code < 400 THEN HandleSuccess(response_time_ms)
    ELSE /\ backoffs' = <<>>
         /\ UNCHANGED <<min_delay, max_delay, current_delay, window_size,
                        response_times, error_count, backoff_until, now>>

\* Time passes.
Tick ==
    /\ now < MaxNow
    /\ now' = now + 1
    /\ UNCHANGED <<min_delay, max_delay, current_delay, window_size,
                   response_times, error_count, backoff_until, backoffs>>

\* __init__ (lines 24-40) with 0 < min_delay <= max_delay.
LimiterInit ==
    /\ min_delay \in MinDelays
    /\ max_delay \in MaxDelays
    /\ min_delay <= max_delay
    /\ current_delay = min_delay
    /\ window_size \in 1..MaxWindow
    /\ response_times = <<>>
    /\ error_count = 0
    /\ backoff_until = 0
    /\ now = 0
    /\ backoffs = <<>>
    /\ lcall = 0
    /\ fs = [p \in Paths |-> Absent]
    /\ data = DefaultData
    /\ unsaved = 0
    /\ save_interval = DefaultSaveInterval
    /\ lock = 0
    /\ pc = [t \in Threads |-> "idle"]
    /\ alive = TRUE
    /\ clock = 0
    /\ last = NoCall
    /\ hist = NoHist
    /\ RunIdle
    /\ RetryIdle
    /\ ExtIdle

LimiterNext ==
    \/ /\ \E c \in StatusCodes, ms \in Latencies :
              RecordResponse(c, ms) /\ lcall' = c
       /\ UNCHANGED <<trackerVars, runVars, retryVars, extVars>>
    \/ Tick /\ UNCHANGED <<lcall, trackerVars, runVars, retryVars, extVars>>

LimiterSpec == LimiterInit /\ [][LimiterNext]_vars

(***************************************************************************)
(* RetryManager (scraper/retry_manager.py).  Error texts are sequences of  *)
(* characters, so that the substring test of _classify_error is computed.  *)
(***************************************************************************)
MaxRetryId == 2       \* khewats given to the manager are 1..MaxRetryId
MaxRetries == 2       \* max_retries is drawn from 1..MaxRetries
MaxRetryOps == 4      \* record_failure and retry_all calls per behaviour

RetryIds == 1..MaxRetryId

\* "Timeout"
Text_Timeout ==
    <<"T", "i", "m", "e", "o", "u", "t">>

\* "No record found"
Text_NoRecordFound ==
    <<"N", "o", " ", "r", "e", "c", "o", "r", "d", " ", "f", "o", "u", "n", "d">>

\* "NOT FOUND"
Text_NOT_FOUND ==
    <<"N", "O", "T", " ", "F", "O", "U", "N", "D">>

\* "Download failed"
Text_DownloadFailed ==
    <<"D", "o", "w", "n", "l", "o", "a", "d", " ", "f", "a", "i", "l", "e", "d">>

\* "Invalid response"
Text_InvalidResponse ==
    <<"I", "n", "v", "a", "l", "i", "d", " ", "r", "e", "s", "p", "o", "n", "s", "e">>

\* The error texts handed to record_failure.
FailureTexts == {Text_Timeout, Text_NoRecordFound, Text_NOT_FOUND}

\* What download_func does: return True, return False, or raise with a text.
FetchResults ==
    {[kind |-> "true", text |-> <<>>], [kind |-> "false", text |-> <<>>],
     [kind |-> "raise", text |-> Text_DownloadFailed],
     [kind |-> "raise", text |-> Text_InvalidResponse]}

\* Line 42.
PERMANENT_ERRORS ==
    <<<<"n", "o", " ", "r", "e", "c", "o", "r", "d">>,
      <<"n", "o", "t", " ", "f", "o", "u", "n", "d">>,
      <<"i", "n", "v", "a", "l", "i", "d">>,
      <<"d", "o", "e", "s", " ", "n", "o", "t", " ", "e", "x", "i", "s", "t">>>>

UpperCase ==
    <<"A", "B", "C", "D", "E", "F", "G", "H", "I", "J", "K", "L", "M", "N", "O", "P", "Q", "R", "S", "T", "U", "V", "W", "X", "Y", "Z">>

LowerCase ==
    <<"a", "b", "c", "d", "e", "f", "g", "h", "i", "j", "k", "l", "m", "n", "o", "p", "q", "r", "s", "t", "u", "v", "w", "x", "y", "z">>

\* str.lower() (line 66), one character.
LowerChar(c) ==
    IF \E i \in DOMAIN UpperCase : UpperCase[i] = c
    THEN LowerCase[CHOOSE i \in DOMAIN UpperCase : UpperCase[i] = c]
    ELSE c

ToLower(t) == [i \in DOMAIN t |-> LowerChar(t[i])]

\* pattern in error_lower (line 68).
Contains(pattern, text) ==
    \E i \in 1..(Len(text) - Len(pattern) + 1) :
        SubSeq(text, i, i + Len(pattern) - 1) = pattern

\* _classify_error (lines 65-70).
ClassifyError(error) ==
    IF \E i \in DOMAIN PERMANENT_ERRORS : Contains(PERMANENT_ERRORS[i], ToLower(error))
    THEN "permanent"
    ELSE "transient"

\* FailedItem (lines 19-24), with history: the call count at which it was
\* appended, the text it was created with, and how often retry_all has
\* fetched it.
NewFailedItem(khewat, error, stamp) ==
    [khewat |-> khewat, error |-> error, failure_type |-> ClassifyError(error),
     retry_count |-> 0, stamp |-> stamp, first |-> error, fetched |-> 0]

HasItem(F, k) == \E i \in DOMAIN F : F[i].khewat = k

\* The position of the first item for khewat k: the item that the loop of
\* line 54 and next(...) of line 98 find.
IndexOf(F, k) ==
    CHOOSE i \in DOMAIN F : F[i].khewat = k /\ \A j \in 1..(i - 1) : F[j].khewat # k

\* A record_failure that classifies an existing item anew.
RecordFailureListReclassifies(F, k, e, stamp) ==
    IF HasItem(F, k)
    THEN [F EXCEPT ![IndexOf(F, k)].retry_count = @ + 1,
                   ![IndexOf(F, k)].error = e,
                   ![IndexOf(F, k)].failure_type = ClassifyError(e)]
    ELSE Append(F, NewFailedItem(k, e, stamp))

\* record_failure (lines 50-63): the list afterwards.
RecordFailureList(F, k, e, stamp) ==
    IF HasItem(F, k)
    THEN [F EXCEPT ![IndexOf(F, k)].retry_count = @ + 1,
                   ![IndexOf(F, k)].error = e]
    ELSE Append(F, NewFailedItem(k, e, stamp))

\* get_retryable (lines 72-79).
RECURSIVE GetRetryableInclusive(_, _)
GetRetryableInclusive(F, m) ==
    IF F = <<>> THEN <<>>
    ELSE (IF Head(F).failure_type = "transient" /\ Head(F).retry_count <= m
          THEN <<Head(F).khewat>> ELSE <<>>)
         \o GetRetryableInclusive(Tail(F), m)

RECURSIVE GetRetryable(_, _)
GetRetryable(F, m) ==
    IF F = <<>> THEN <<>>
    ELSE (IF Head(F).failure_type = "transient" /\ Head(F).retry_count < m
          THEN <<Head(F).khewat>> ELSE <<>>)
         \o GetRetryable(Tail(F), m)

\* The list comprehension of line 109.
RECURSIVE WithoutKhewat(_, _)
WithoutKhewat(F, k) ==
    IF F = <<>> THEN <<>>
    ELSE (IF Head(F).khewat # k THEN <<Head(F)>> ELSE <<>>) \o WithoutKhewat(Tail(F), k)

\* Lines 106-116: the list after download_func(khewat) ended as r.
AfterFetchKeepsCount(F, k, r) ==
    IF r.kind = "true" THEN WithoutKhewat(F, k)
    ELSE [F EXCEPT ![IndexOf(F, k)].retry_count = IF r.kind = "raise" THEN @ ELSE @ + 1,
                   ![IndexOf(F, k)].fetched = @ + 1,
                   ![IndexOf(F, k)].error = IF r.kind = "raise" THEN r.text ELSE @]

AfterFetch(F, k, r) ==
    IF r.kind = "true" THEN WithoutKhewat(F, k)
    ELSE [F EXCEPT ![IndexOf(F, k)].retry_count = @ + 1,
                   ![IndexOf(F, k)].fetched = @ + 1,
                   ![IndexOf(F, k)].error = IF r.kind = "raise" THEN r.text ELSE @]

RetryBudget == rops < MaxRetryOps

\* record_failure(khewat, error).
RecordFailure(k, e) ==
    /\ rt.pc = "idle"
    /\ RetryBudget
    /\ failures' = RecordFailureList(failures, k, e, rops + 1)
    /\ rops' = rops + 1
    /\ rlast' = [NoRetryCall EXCEPT !.op = "record_failure", !.id = k]
    /\ UNCHANGED <<max_retries, rt>>

\* get_retryable() called on its own.
CallGetRetryable ==
    /\ rt.pc = "idle"
    /\ RetryBudget
    /\ rlast' = [NoRetryCall EXCEPT !.op = "get_retryable",
                                    !.ret = GetRetryable(failures, max_retries)]
    /\ UNCHANGED <<failures, max_retries, rt, rops>>

\* retry_all, lines 90-95: nothing retryable returns the zero counts.
RetryAllBegin ==
    /\ rt.pc = "idle"
    /\ RetryBudget
    /\ rops' = rops + 1
    /\ LET retryable == GetRetryable(failures, max_retries)
       IN  IF retryable = <<>>
           THEN /\ rt' = NoRetryAll
                /\ rlast' = [NoRetryCall EXCEPT !.op = "retry_all"]
           ELSE /\ rt' = [pc |-> "loop", retryable |-> retryable, idx |-> 1,
                          succeeded |-> 0, failed |-> 0]
                /\ rlast' = [NoRetryCall EXCEPT !.op = "retry_all_begin",
                                                !.ret = retryable]
    /\ UNCHANGED <<failures, max_retries>>

\* retry_all, lines 97-116: one iteration, download_func(khewat) ending as r.
RetryFetch(r) ==
    /\ rt.pc = "loop"
    /\ rt.idx <= Len(rt.retryable)
    /\ LET khewat == rt.retryable[rt.idx]
       IN  /\ failures' = AfterFetch(failures, khewat, r)
           /\ rt' = [rt EXCEPT !.idx = @ + 1,
                               !.succeeded = IF r.kind = "true" THEN @ + 1 ELSE @,
                               !.failed = IF r.kind = "true" THEN @ ELSE @ + 1]
           /\ rlast' = [NoRetryCall EXCEPT !.op = "fetch", !.id = khewat,
                                           !.kind = r.kind, !.ret = r.text]
    /\ UNCHANGED <<max_retries, rops>>

\* retry_all, line 118.
RetryAllReturn ==
    /\ rt.pc = "loop"
    /\ rt.idx > Len(rt.retryable)
    /\ rt' = NoRetryAll
    /\ rlast' = [NoRetryCall EXCEPT
                   !.op = "retry_all", !.ret = rt.retryable,
                   !.counts = <<Len(rt.retryable), rt.succeeded, rt.failed>>]
    /\ UNCHANGED <<failures, max_retries, rops>>

RetryInit ==
    /\ failures = <<>>
    /\ max_retries \in 1..MaxRetries
    /\ rt = NoRetryAll
    /\ rops = 0
    /\ rlast = NoRetryCall
    /\ fs = [p \in Paths |-> Absent]
    /\ data = DefaultData
    /\ unsaved = 0
    /\ save_interval = DefaultSaveInterval
    /\ lock = 0
    /\ pc = [t \in Threads |-> "idle"]
    /\ alive = TRUE
    /\ clock = 0
    /\ last = NoCall
    /\ hist = NoHist
    /\ RunIdle
    /\ LimiterIdle
    /\ ExtIdle

RetryNext ==
    \/ /\ \E k \in RetryIds, e \in FailureTexts : RecordFailure(k, e)
       /\ UNCHANGED <<trackerVars, runVars, limiterVars, extVars>>
    \/ CallGetRetryable /\ UNCHANGED <<trackerVars, runVars, limiterVars, extVars>>
    \/ RetryAllBegin /\ UNCHANGED <<trackerVars, runVars, limiterVars, extVars>>
    \/ (\E r \in FetchResults : RetryFetch(r))
          /\ UNCHANGED <<trackerVars, runVars, limiterVars, extVars>>
    \/ RetryAllReturn /\ UNCHANGED <<trackerVars, runVars, limiterVars, extVars>>

RetrySpec == RetryInit /\ [][RetryNext]_vars

(***************************************************************************)
(* A whole run followed by retry_all: run_concurrent over the range        *)
(* 1..Len(Scenario) against a site that answers khewat k with Scenario[k]  *)
(* and accepts every form request, then retry_all on the manager that      *)
(* run_concurrent constructs at line 827.  Nothing in the scraper calls    *)
(* record_failure, so that manager is what __init__ left.                  *)
(***************************************************************************)
Scenario == <<"pdf", "pdf", "no_record", "timeout", "pdf">>

E2ESplit == RunSplitTo(Len(Scenario))

E2EDownloadNakal(w) ==
    /\ rpc = "workers"
    /\ wk[w].pc = "download_nakal"
    /\ WorkerDownloadNakal(w, Scenario[batches[w][wk[w].i]])

\* retry_all(download_nakal) once run_concurrent has returned.
E2ERetryAll ==
    /\ rpc = "done"
    /\ rops = 0
    /\ RetryAllBegin
    /\ UNCHANGED <<trackerVars, runVars, limiterVars, extVars>>

E2EInit ==
    /\ fs = [p \in Paths |-> Absent]
    /\ data = Load(fs[filepath])
    /\ loaded = data
    /\ unsaved = 0
    /\ save_interval = DefaultSaveInterval
    /\ lock = 0
    /\ pc = [t \in RunThreads |-> "idle"]
    /\ alive = TRUE
    /\ clock = 1
    /\ last = NoCall
    /\ hist = NoHist
    /\ rpc = "start"
    /\ num_workers \in 1..MaxWorkers
    /\ pending = <<>>
    /\ batches = <<>>
    /\ wk = <<>>
    /\ LimiterIdle
    /\ RetryManagerNew(DefaultMaxRetries)
    /\ ExtIdle

E2ENext ==
    \/ RunSetConfig
    \/ E2ESplit
    \/ \E w \in DOMAIN wk : WorkerLoop(w)
    \/ \E w \in DOMAIN wk : WorkerInitializeForm(w, "true")
    \/ \E w \in DOMAIN wk : WorkerSetupForm(w, "true")
    \/ \E w \in DOMAIN wk : E2EDownloadNakal(w)
    \/ (\E t \in RunThreads : SaveOpen(t)) /\ UNCHANGED <<runVars, limiterVars, retryVars, extVars>>
    \/ (\E t \in RunThreads : SaveDump(t)) /\ UNCHANGED <<runVars, limiterVars, retryVars, extVars>>
    \/ (\E t \in RunThreads : SaveReplace(t)) /\ UNCHANGED <<runVars, limiterVars, retryVars, extVars>>
    \/ RunJoin
    \/ RunSummary
    \/ E2ERetryAll

E2ESpec == E2EInit /\ [][E2ENext]_vars

(***************************************************************************)
(* The tracker's variables in the specifications that have no tracker.     *)
(***************************************************************************)
TrackerIdle ==
    /\ fs = [p \in Paths |-> Absent]
    /\ data = DefaultData
    /\ unsaved = 0
    /\ save_interval = DefaultSaveInterval
    /\ lock = 0
    /\ pc = [t \in Threads |-> "idle"]
    /\ alive = TRUE
    /\ clock = 0
    /\ last = NoCall
    /\ hist = NoHist

(***************************************************************************)
(* PDFValidator (scraper/validator.py).  A file is its size, its first     *)
(* eight bytes, whether %%EOF occurs in its last 128 bytes, and whether    *)
(* open() succeeds on it.                                                  *)
(***************************************************************************)
MIN_SIZE_BYTES == 10240

\* f.read(8), line 78.
HeaderBytes == 8

\* f.seek(-128, 2), line 102.
TailBytes == 128

\* b"%PDF-"
PDF_HEADER ==
    <<"%", "P", "D", "F", "-">>

\* b"%%EOF"
PDF_EOF_MARKER ==
    <<"%", "%", "E", "O", "F">>

\* The first bytes of a PDF document and of an HTML page.
PdfStart ==
    <<"%", "P", "D", "F", "-", "1", ".", "4">>

HtmlStart ==
    <<"<", "h", "t", "m", "l", ">", "<", "b">>

FileSizes ==
    {0, 3, TailBytes - 1, TailBytes, MIN_SIZE_BYTES - 1, MIN_SIZE_BYTES,
     2 * MIN_SIZE_BYTES}

NoFile ==
    [exists |-> FALSE, size |-> 0, kind |-> "none", header |-> <<>>,
     eof |-> FALSE, readable |-> FALSE]

\* The files handed to the validator: absent, or of a size of FileSizes,
\* starting like a PDF or like an HTML page, with or without the end-of-file
\* marker in the tail (only where it fits after the header), readable or not.
ValidatorFiles ==
    {NoFile} \cup
    {f \in {[exists |-> TRUE, size |-> n, kind |-> k,
             header |-> SubSeq(IF k = "pdf" THEN PdfStart ELSE HtmlStart, 1,
                               Min(HeaderBytes, n)),
             eof |-> e, readable |-> r] :
               n \in FileSizes, k \in {"pdf", "html"}, e \in BOOLEAN,
               r \in BOOLEAN} :
        f.eof => f.size >= HeaderBytes + Len(PDF_EOF_MARKER)}

\* bytes.startswith
StartsWith(s, prefix) ==
    /\ Len(s) >= Len(prefix)
    /\ SubSeq(s, 1, Len(prefix)) = prefix

\* validate_pdf (lines 63-84) with the header test before the size test.
ValidatePdfHeaderFirst(f) ==
    IF ~f.exists THEN "invalid"
    ELSE IF ~f.readable THEN "invalid"
    ELSE IF ~StartsWith(f.header, PDF_HEADER) THEN "invalid"
    ELSE IF f.size < MIN_SIZE_BYTES THEN "warning"
    ELSE "valid"

\* validate_pdf (lines 63-84): the status it returns.
ValidatePdfStatus(f) ==
    IF ~f.exists THEN "invalid"
    ELSE IF f.size < MIN_SIZE_BYTES THEN "warning"
    ELSE IF ~f.readable THEN "invalid"
    ELSE IF ~StartsWith(f.header, PDF_HEADER) THEN "invalid"
    ELSE "valid"

\* What PdfReader does with the file (lines 118-147): it finds pages, finds
\* none, raises PdfReadError, or raises something else.
ParseOutcomes == {"pages", "no_pages", "read_error", "exception"}

\* validate_pdf_deep (lines 86-153): the status it returns.  The seek of
\* line 102 raises on a file shorter than 128 bytes and open() on an
\* unreadable one; line 111 passes over both.
ValidatePdfDeepStatus(f, parser_used, parse) ==
    IF ValidatePdfStatus(f) = "invalid" THEN "invalid"
    ELSE IF f.readable /\ f.size >= TailBytes /\ ~f.eof THEN "warning"
    ELSE IF parser_used
    THEN CASE parse = "no_pages" -> "invalid"
           [] parse = "read_error" -> "invalid"
           [] OTHER -> "valid"
    ELSE "valid"

NoValidation ==
    [op |-> "none", status |-> "none", parser_used |-> FALSE, parse |-> "none"]

\* validate_pdf(pdf_path).
ValidatePdf ==
    /\ vresult' = [NoValidation EXCEPT !.op = "validate_pdf",
                                       !.status = ValidatePdfStatus(vfile)]
    /\ UNCHANGED vfile

\* validate_pdf_deep(pdf_path) on a validator constructed with
\* deep_validation, with pypdf importable or not (lines 15-24 and 61).
ValidatePdfDeep(deep_validation, PYPDF_AVAILABLE, parse) ==
    LET parser_used == deep_validation /\ PYPDF_AVAILABLE
    IN  /\ vresult' = [op |-> "validate_pdf_deep",
                       status |-> ValidatePdfDeepStatus(vfile, parser_used, parse),
                       parser_used |-> parser_used,
                       parse |-> IF parser_used THEN parse ELSE "none"]
        /\ UNCHANGED vfile

ValidatorInit ==
    /\ vfile \in ValidatorFiles
    /\ vresult = NoValidation
    /\ TrackerIdle
    /\ RunIdle
    /\ LimiterIdle
    /\ RetryIdle
    /\ LockIdle /\ WaitIdle /\ FormIdle /\ MainIdle /\ SessionIdle

ValidatorNext ==
    \/ /\ ValidatePdf
       /\ UNCHANGED <<trackerVars, runVars, limiterVars, retryVars, lockVars,
                      waitVars, formVars, mainVars, sessionVars>>
    \/ /\ \E d \in BOOLEAN, a \in BOOLEAN, o \in ParseOutcomes :
              ValidatePdfDeep(d, a, o)
       /\ UNCHANGED <<trackerVars, runVars, limiterVars, retryVars, lockVars,
                      waitVars, formVars, mainVars, sessionVars>>

ValidatorSpec == ValidatorInit /\ [][ValidatorNext]_vars

(***************************************************************************)
(* SessionManager (scraper/session_manager.py).  Each call is one step:    *)
(* the state changes happen under self._lock, and the callbacks, which run *)
(* after the lock is released, are counted.                                *)
(***************************************************************************)
MaxSessionOps == 4    \* calls on the session manager per behaviour

Cookies == {"cookie0", "cookie1", "cookie2"}

\* Lines 27-37.
EXPIRY_URL_PATTERNS ==
    <<<<"l", "o", "g", "i", "n", ".", "a", "s", "p", "x">>,
      <<"l", "o", "g", "i", "n", ".", "a", "s", "p">>,
      <<"/", "l", "o", "g", "i", "n">>>>

EXPIRY_CONTENT_PATTERNS ==
    <<<<"e", "n", "t", "e", "r", " ", "m", "o", "b", "i", "l", "e">>,
      <<"s", "e", "s", "s", "i", "o", "n", " ", "h", "a", "s", " ", "t", "i", "m", "e", "d", " ", "o", "u", "t">>,
      <<"s", "e", "s", "s", "i", "o", "n", " ", "e", "x", "p", "i", "r", "e", "d">>,
      <<"p", "l", "e", "a", "s", "e", " ", "l", "o", "g", "i", "n">>,
      <<"p", "l", "e", "a", "s", "e", " ", "l", "o", "g", " ", "i", "n">>,
      <<"a", "u", "t", "h", "e", "n", "t", "i", "c", "a", "t", "i", "o", "n", " ", "r", "e", "q", "u", "i", "r", "e", "d">>>>

\* Responses handed to check_and_handle_response: url and content.
Url_Form ==
    <<"/", "P", "u", "b", "l", "i", "c", "N", "a", "k", "a", "l", "/", "f", "o", "r", "m", ".", "a", "s", "p", "x">>

Url_Login ==
    <<"/", "P", "u", "b", "l", "i", "c", "N", "a", "k", "a", "l", "/", "L", "o", "g", "i", "n", ".", "a", "s", "p", "x">>

Content_Nakal ==
    <<"<", "h", "t", "m", "l", ">", "N", "a", "k", "a", "l", "<", "/", "h", "t", "m", "l", ">">>

Content_PleaseLogin ==
    <<"<", "p", ">", "P", "l", "e", "a", "s", "e", " ", "L", "o", "g", "i", "n", "<", "/", "p", ">">>

SessionResponses ==
    {[url |-> Url_Form, content |-> Content_Nakal],
     [url |-> Url_Login, content |-> Content_Nakal],
     [url |-> Url_Form, content |-> Content_PleaseLogin]}

\* is_session_expired_response (lines 94-117).
IsSessionExpiredResponse(url, content) ==
    \/ \E i \in DOMAIN EXPIRY_URL_PATTERNS :
           Contains(ToLower(EXPIRY_URL_PATTERNS[i]), ToLower(url))
    \/ \E i \in DOMAIN EXPIRY_CONTENT_PATTERNS :
           Contains(ToLower(EXPIRY_CONTENT_PATTERNS[i]), ToLower(content))

\* __init__ (lines 46-61) with the given cookie; the counters are history.
SessionManagerNew(cookie) ==
    [cookie |-> cookie, state |-> "active", active_event |-> TRUE,
     expired_callbacks |-> 0, refreshed_callbacks |-> 0, ops |-> 0]

NoSessionCall == [op |-> "none", before |-> "none", arg |-> "none", ret |-> "none"]

SessionBudget == sess.ops < MaxSessionOps

\* The state part of mark_expired (lines 127-138).
ExpiredFrom(s) ==
    IF s.state # "expired"
    THEN [s EXCEPT !.state = "expired", !.active_event = FALSE,
                   !.expired_callbacks = @ + 1]
    ELSE s

\* mark_expired().
MarkExpired ==
    /\ SessionBudget
    /\ sess' = [ExpiredFrom(sess) EXCEPT !.ops = @ + 1]
    /\ slast' = [NoSessionCall EXCEPT !.op = "mark_expired", !.before = sess.state]

\* mark_refreshing() (lines 140-145) that does not look at the state.
MarkRefreshingFromAny ==
    /\ SessionBudget
    /\ sess' = [sess EXCEPT !.state = "refreshing", !.ops = @ + 1]
    /\ slast' = [NoSessionCall EXCEPT !.op = "mark_refreshing", !.before = sess.state]

\* mark_refreshing() (lines 140-145).
MarkRefreshing ==
    /\ SessionBudget
    /\ sess' = [sess EXCEPT !.state = IF @ = "expired" THEN "refreshing" ELSE @,
                            !.ops = @ + 1]
    /\ slast' = [NoSessionCall EXCEPT !.op = "mark_refreshing", !.before = sess.state]

\* update_cookie(new_cookie) (lines 147-169).
UpdateCookie(new_cookie) ==
    /\ SessionBudget
    /\ sess' = [sess EXCEPT !.cookie = new_cookie, !.state = "active",
                            !.active_event = TRUE,
                            !.refreshed_callbacks = @ + 1, !.ops = @ + 1]
    /\ slast' = [NoSessionCall EXCEPT !.op = "update_cookie", !.before = sess.state,
                                      !.arg = new_cookie]

\* wait_for_valid_session (lines 171-186) with a wait that ends before any
\* other call: it returns when the event is set and raises when it is not.
WaitForValidSession ==
    /\ SessionBudget
    /\ sess' = [sess EXCEPT !.ops = @ + 1]
    /\ slast' = [NoSessionCall EXCEPT
                   !.op = "wait_for_valid_session", !.before = sess.state,
                   !.ret = IF sess.active_event THEN "returned" ELSE "raised"]

\* check_and_handle_response(url, content) (lines 188-203).
CheckAndHandleResponse(r) ==
    /\ SessionBudget
    /\ LET expired == IsSessionExpiredResponse(r.url, r.content)
       IN  /\ sess' = [(IF expired THEN ExpiredFrom(sess) ELSE sess)
                         EXCEPT !.ops = @ + 1]
           /\ slast' = [NoSessionCall EXCEPT
                          !.op = "check_and_handle_response",
                          !.before = sess.state,
                          !.ret = IF expired THEN "true" ELSE "false"]

\* The state and cookie properties (lines 63-73).
ReadState ==
    /\ SessionBudget
    /\ sess' = [sess EXCEPT !.ops = @ + 1]
    /\ slast' = [NoSessionCall EXCEPT !.op = "state", !.before = sess.state,
                                      !.ret = sess.state, !.arg = sess.cookie]

SessionInit ==
    /\ sess = SessionManagerNew("cookie0")
    /\ slast = NoSessionCall
    /\ SessionThreadsIdle
    /\ TrackerIdle
    /\ RunIdle
    /\ LimiterIdle
    /\ RetryIdle
    /\ LockIdle /\ WaitIdle /\ FormIdle /\ MainIdle /\ ValidatorIdle

SessionOthersUnchanged ==
    UNCHANGED <<trackerVars, runVars, limiterVars, retryVars, lockVars,
                waitVars, formVars, mainVars, validatorVars, slock, sth, slog>>

SessionNext ==
    \/ MarkExpired /\ SessionOthersUnchanged
    \/ MarkRefreshing /\ SessionOthersUnchanged
    \/ (\E c \in Cookies : UpdateCookie(c)) /\ SessionOthersUnchanged
    \/ WaitForValidSession /\ SessionOthersUnchanged
    \/ (\E r \in SessionResponses : CheckAndHandleResponse(r)) /\ SessionOthersUnchanged
    \/ ReadState /\ SessionOthersUnchanged

SessionSpec == SessionInit /\ [][SessionNext]_vars

(***************************************************************************)
(* main() in concurrent mode (lines 902-983): run_concurrent, then the     *)
(* conversion pass, then the function returns, so the interpreter ends     *)
(* with status 0.  main() has no sys.exit, and it catches every exception  *)
(* of the run.                                                             *)
(***************************************************************************)
\* The status of a Python process whose main() returned.
ExitNormally == 0

\* Lines 972-983: main() returns after run_concurrent has.
MainReturn ==
    /\ rpc \in {"done", "nothing_pending"}
    /\ exit_status = -1
    /\ exit_status' = ExitNormally
    /\ UNCHANGED <<trackerVars, runVars, limiterVars, retryVars, lockVars,
                   waitVars, formVars, validatorVars, sessionVars>>

MainInit == RunInit

MainNext == RunNext \/ MainReturn

MainSpec == MainInit /\ [][MainNext]_vars

(***************************************************************************)
(* setup_form_selections and _make_postback (http_scraper.py, lines        *)
(* 372-541).  The scraper has just run initialize_form, so it holds the    *)
(* tokens of the form page.  A response is the hidden inputs it carries    *)
(* ("none" for an input that is not in the page) and whether its text has  *)
(* the khewat dropdown; a request can also raise.                          *)
(***************************************************************************)
\* CONFIG, lines 51-54.
district_code == "17"

tehsil_code == "102"

village_code == "02532"

period == "2023-2024"

\* The event targets of the five postbacks, in the order of lines 453-526.
PostbackTargets == <<"RdobtnKhewat", "ddldname", "ddltname", "ddlvname", "ddlPeriod">>

\* form_data of postback k (lines 456-462, 471-477, 486-492, 501-507, 516-522).
FormData(k) ==
    [a |-> "RdobtnKhewat",
     ddldname |-> IF k >= 2 THEN district_code ELSE "-1",
     ddltname |-> IF k >= 3 THEN tehsil_code ELSE "",
     ddlvname |-> IF k >= 4 THEN village_code ELSE "",
     ddlPeriod |-> IF k >= 5 THEN period ELSE ""]

FormResponses ==
    [vs : {"none", "vsA", "vsB"}, vsg : {"none", "gA"}, ev : {"none", "evA"},
     selector : BOOLEAN]

\* _parse_asp_tokens (lines 349-362): whether it returns True.
TokensFound(r) == r.vs # "none" /\ r.vsg # "none"

\* _parse_asp_tokens that reports the tokens found and keeps the old ones.
ParseAspTokensKeepsOld(f, r) == f

\* _parse_asp_tokens: the scraper's fields afterwards.
ParseAspTokens(f, r) ==
    IF TokensFound(r)
    THEN [f EXCEPT !.viewstate = r.vs,
                   !.viewstate_generator = r.vsg,
                   !.event_validation = IF r.ev = "none" THEN "" ELSE r.ev]
    ELSE f

\* _make_postback (lines 372-406): the request it posts, from the tokens
\* the scraper holds; __EVENTVALIDATION is sent only when it is non-empty.
MakePostback(f, event_target, extra_data) ==
    [event_target |-> event_target,
     viewstate |-> f.viewstate,
     viewstate_generator |-> f.viewstate_generator,
     has_event_validation |-> f.event_validation # "",
     event_validation |-> f.event_validation,
     extra_data |-> extra_data]

\* The scraper once initialize_form has returned True.
FormInitialized ==
    [viewstate |-> "vs0", viewstate_generator |-> "g0", event_validation |-> "ev0",
     form_initialized |-> FALSE, pc |-> "ready", step |-> 0,
     sent |-> <<>>, responses |-> <<>>]

\* setup_form_selections is called: the first postback goes out (line 463).
SetupBegin ==
    /\ form.pc = "ready"
    /\ form' = [form EXCEPT
                  !.pc = "await", !.step = 1,
                  !.sent = <<MakePostback(form, PostbackTargets[1], FormData(1))>>]

\* The response to postback form.step arrives and is parsed; the next
\* postback goes out, or the function returns (lines 464-466, ..., 527-541).
SetupResponse(r) ==
    /\ form.pc = "await"
    /\ LET f == [ParseAspTokens(form, r) EXCEPT !.responses = Append(@, r)]
       IN  form' =
             IF ~TokensFound(r) THEN [f EXCEPT !.pc = "returned_false"]
             ELSE IF form.step < Len(PostbackTargets)
             THEN [f EXCEPT !.step = @ + 1,
                            !.sent = Append(@, MakePostback(f,
                                         PostbackTargets[form.step + 1],
                                         FormData(form.step + 1)))]
             ELSE IF r.selector
             THEN [f EXCEPT !.pc = "returned_true", !.form_initialized = TRUE]
             ELSE [f EXCEPT !.pc = "returned_false"]

\* session.post raises (a timeout, a connection error): nothing in
\* setup_form_selections catches it.
SetupRaises ==
    /\ form.pc = "await"
    /\ form' = [form EXCEPT !.pc = "raised"]

FormInit ==
    /\ form = FormInitialized
    /\ TrackerIdle
    /\ RunIdle
    /\ LimiterIdle
    /\ RetryIdle
    /\ LockIdle /\ WaitIdle /\ MainIdle /\ ValidatorIdle /\ SessionIdle

FormOthersUnchanged ==
    UNCHANGED <<trackerVars, runVars, limiterVars, retryVars, lockVars,
                waitVars, mainVars, validatorVars, sessionVars>>

FormNext ==
    \/ SetupBegin /\ FormOthersUnchanged
    \/ (\E r \in FormResponses : SetupResponse(r)) /\ FormOthersUnchanged
    \/ SetupRaises /\ FormOthersUnchanged

FormSpec == FormInit /\ [][FormNext]_vars

(***************************************************************************)
(* ProgressTracker under threads, statement by statement (http_scraper.py, *)
(* lines 204-270).  A thread that calls mark_complete, mark_failed or      *)
(* flush first waits for self._lock; inside the with block every read and  *)
(* write of self.data and self._unsaved_count is a step of its own, and    *)
(* x += 1 is a read followed by a write.                                   *)
(***************************************************************************)
MaxLockOps == 3       \* calls started per behaviour of LockSpec
MaxLockId == 2        \* khewats marked in LockSpec are 1..MaxLockId

LockIds == 1..MaxLockId

NoThreadCall ==
    [pc |-> "idle", op |-> "none", k |-> 0, b |-> 0, e |-> "", tmp |-> 0,
     blocked |-> FALSE]

\* The statements of _atomic_save and the reset that follows it.
SavePositions == {"save_stamp", "save_open", "save_dump", "save_replace", "save_reset"}

LockBudget == Len(calls) + Cardinality({t \in Threads : th[t].pc = "waiting"}) < MaxLockOps

LockFrame == UNCHANGED <<pc, alive, last, hist, save_interval>>

\* A thread calls mark_complete, mark_failed or flush and reaches
\* "with self._lock"; which call it is plays no part until it has the lock.
TrackerCall(t) ==
    /\ th[t].pc = "idle"
    /\ LockBudget
    /\ th' = [th EXCEPT ![t] = [NoThreadCall EXCEPT
                 !.pc = "waiting", !.blocked = (lock # 0)]]
    /\ LockFrame
    /\ UNCHANGED <<data, unsaved, lock, fs, clock, calls>>

\* threading.Lock.acquire ignoring the holder.
LockAvailableAlways(t) == TRUE

\* threading.Lock.acquire: it returns only when no thread holds the lock.
LockAvailable(t) == lock = 0

\* __enter__ of "with self._lock" (lines 219, 246, 265) in the call
\* op(k, b) or op(k, e) of thread t.
LockAcquire(t, op, k, b, e) ==
    /\ th[t].pc = "waiting"
    /\ LockAvailable(t)
    /\ lock' = t
    /\ calls' = Append(calls, [op |-> op, k |-> k, b |-> b, e |-> e])
    /\ th' = [th EXCEPT ![t] = [@ EXCEPT
                 !.op = op, !.k = k, !.b = b, !.e = e,
                 !.pc = CASE op = "mark_complete" -> "mc_test"
                          [] op = "mark_failed" -> "mf_set"
                          [] OTHER -> "fl_test"]]
    /\ LockFrame
    /\ UNCHANGED <<data, unsaved, fs, clock>>

\* Line 247: if khewat not in self.data["completed"].
McTest(t) ==
    /\ th[t].pc = "mc_test"
    /\ th' = [th EXCEPT ![t].pc = IF th[t].k \in Range(data.completed)
                                  THEN "mc_pop" ELSE "mc_append"]
    /\ LockFrame
    /\ UNCHANGED <<data, unsaved, lock, fs, clock, calls>>

\* Line 248.
McAppend(t) ==
    /\ th[t].pc = "mc_append"
    /\ data' = [data EXCEPT !.completed = Append(@, th[t].k)]
    /\ th' = [th EXCEPT ![t].pc = "mc_sort"]
    /\ LockFrame
    /\ UNCHANGED <<unsaved, lock, fs, clock, calls>>

\* Line 249.
McSort(t) ==
    /\ th[t].pc = "mc_sort"
    /\ data' = [data EXCEPT !.completed = SortList(@)]
    /\ th' = [th EXCEPT ![t].pc = "mc_count_read"]
    /\ LockFrame
    /\ UNCHANGED <<unsaved, lock, fs, clock, calls>>

\* Line 250, the read of download_count.
McCountRead(t) ==
    /\ th[t].pc = "mc_count_read"
    /\ th' = [th EXCEPT ![t].pc = "mc_count_write", ![t].tmp = data.download_count]
    /\ LockFrame
    /\ UNCHANGED <<data, unsaved, lock, fs, clock, calls>>

\* Line 250, the write.
McCountWrite(t) ==
    /\ th[t].pc = "mc_count_write"
    /\ data' = [data EXCEPT !.download_count = th[t].tmp + 1]
    /\ th' = [th EXCEPT ![t].pc = "mc_bytes_read"]
    /\ LockFrame
    /\ UNCHANGED <<unsaved, lock, fs, clock, calls>>

\* Line 251, the read of bytes_downloaded.
McBytesRead(t) ==
    /\ th[t].pc = "mc_bytes_read"
    /\ th' = [th EXCEPT ![t].pc = "mc_bytes_write", ![t].tmp = data.bytes_downloaded]
    /\ LockFrame
    /\ UNCHANGED <<data, unsaved, lock, fs, clock, calls>>

\* Line 251, the write.
McBytesWrite(t) ==
    /\ th[t].pc = "mc_bytes_write"
    /\ data' = [data EXCEPT !.bytes_downloaded = th[t].tmp + th[t].b]
    /\ th' = [th EXCEPT ![t].pc = "mc_pop"]
    /\ LockFrame
    /\ UNCHANGED <<unsaved, lock, fs, clock, calls>>

\* Line 252: self.data["failed"].pop(str(khewat), None).
McPop(t) ==
    /\ th[t].pc = "mc_pop"
    /\ data' = [data EXCEPT !.failed =
                   [s \in DOMAIN data.failed \ {StrKey(th[t].k)} |-> data.failed[s]]]
    /\ th' = [th EXCEPT ![t].pc = "unsaved_read"]
    /\ LockFrame
    /\ UNCHANGED <<unsaved, lock, fs, clock, calls>>

\* Line 266: self.data["failed"][str(khewat)] = error.
MfSet(t) ==
    /\ th[t].pc = "mf_set"
    /\ data' = [data EXCEPT !.failed =
                   [s \in DOMAIN data.failed \cup {StrKey(th[t].k)} |->
                       IF s = StrKey(th[t].k) THEN th[t].e ELSE data.failed[s]]]
    /\ th' = [th EXCEPT ![t].pc = "unsaved_read"]
    /\ LockFrame
    /\ UNCHANGED <<unsaved, lock, fs, clock, calls>>

\* Lines 253 and 267, the read of _unsaved_count.
UnsavedRead(t) ==
    /\ th[t].pc = "unsaved_read"
    /\ th' = [th EXCEPT ![t].pc = "unsaved_write", ![t].tmp = unsaved]
    /\ LockFrame
    /\ UNCHANGED <<data, unsaved, lock, fs, clock, calls>>

\* Lines 253 and 267, the write.
UnsavedWrite(t) ==
    /\ th[t].pc = "unsaved_write"
    /\ unsaved' = th[t].tmp + 1
    /\ th' = [th EXCEPT ![t].pc = "interval_test"]
    /\ LockFrame
    /\ UNCHANGED <<data, lock, fs, clock, calls>>

\* Lines 254 and 268: if self._unsaved_count >= self.save_interval.
IntervalTest(t) ==
    /\ th[t].pc = "interval_test"
    /\ th' = [th EXCEPT ![t].pc = IF unsaved >= save_interval
                                  THEN "save_stamp" ELSE "release"]
    /\ LockFrame
    /\ UNCHANGED <<data, unsaved, lock, fs, clock, calls>>

\* Line 220: if self._unsaved_count > 0.
FlTest(t) ==
    /\ th[t].pc = "fl_test"
    /\ th' = [th EXCEPT ![t].pc = IF unsaved > 0 THEN "save_stamp" ELSE "release"]
    /\ LockFrame
    /\ UNCHANGED <<data, unsaved, lock, fs, clock, calls>>

\* _atomic_save, line 209.
SaveStamp(t) ==
    /\ th[t].pc = "save_stamp"
    /\ clock' = clock + 1
    /\ data' = [data EXCEPT !.last_updated = clock + 1]
    /\ th' = [th EXCEPT ![t].pc = "save_open"]
    /\ LockFrame
    /\ UNCHANGED <<unsaved, lock, fs, calls>>

\* _atomic_save, line 213.
SaveOpenStmt(t) ==
    /\ th[t].pc = "save_open"
    /\ fs' = [fs EXCEPT ![temp_path] =
                 [exists |-> TRUE, text |-> TRUE, complete |-> FALSE,
                  content |-> DefaultData]]
    /\ th' = [th EXCEPT ![t].pc = "save_dump"]
    /\ LockFrame
    /\ UNCHANGED <<data, unsaved, lock, clock, calls>>

\* _atomic_save, line 214.  The file may have been replaced away by another
\* thread's rename; the open handle still writes the (unlinked) file, and
\* the path then names nothing.
SaveDumpStmt(t) ==
    /\ th[t].pc = "save_dump"
    /\ fs' = IF fs[temp_path].exists
             THEN [fs EXCEPT ![temp_path] =
                      [exists |-> TRUE, text |-> TRUE, complete |-> TRUE,
                       content |-> data]]
             ELSE fs
    /\ th' = [th EXCEPT ![t].pc = "save_replace"]
    /\ LockFrame
    /\ UNCHANGED <<data, unsaved, lock, clock, calls>>

\* _atomic_save, line 215; a rename of a path that names nothing raises
\* FileNotFoundError, which leaves the with block.
SaveReplaceStmt(t) ==
    /\ th[t].pc = "save_replace"
    /\ IF fs[temp_path].exists
       THEN /\ fs' = [fs EXCEPT ![filepath] = fs[temp_path], ![temp_path] = Absent]
            /\ th' = [th EXCEPT ![t].pc = "save_reset"]
       ELSE /\ fs' = fs
            /\ th' = [th EXCEPT ![t].pc = "release"]
    /\ LockFrame
    /\ UNCHANGED <<data, unsaved, lock, clock, calls>>

\* Lines 222, 256, 270: self._unsaved_count = 0.
SaveReset(t) ==
    /\ th[t].pc = "save_reset"
    /\ unsaved' = 0
    /\ th' = [th EXCEPT ![t].pc = "release"]
    /\ LockFrame
    /\ UNCHANGED <<data, lock, fs, clock, calls>>

\* __exit__ of "with self._lock".
LockRelease(t) ==
    /\ th[t].pc = "release"
    /\ lock' = 0
    /\ th' = [th EXCEPT ![t] = NoThreadCall]
    /\ LockFrame
    /\ UNCHANGED <<data, unsaved, fs, clock, calls>>

LockInit ==
    /\ TrackerInit
    /\ th = [t \in Threads |-> NoThreadCall]
    /\ calls = <<>>
    /\ RunIdle
    /\ LimiterIdle
    /\ RetryIdle
    /\ WaitIdle /\ FormIdle /\ MainIdle /\ ValidatorIdle /\ SessionIdle

LockOthersUnchanged ==
    UNCHANGED <<runVars, limiterVars, retryVars, waitVars, formVars, mainVars,
                validatorVars, sessionVars>>

LockNext ==
    \/ (\E t \in Threads : TrackerCall(t)) /\ LockOthersUnchanged
    \/ /\ \E t \in Threads, k \in LockIds :
              LockAcquire(t, "mark_complete", k, MaxBytes, "")
       /\ LockOthersUnchanged
    \/ /\ \E t \in Threads, k \in LockIds :
              LockAcquire(t, "mark_failed", k, 0, "Timeout")
       /\ LockOthersUnchanged
    \/ (\E t \in Threads : LockAcquire(t, "flush", 0, 0, "")) /\ LockOthersUnchanged
    \/ (\E t \in Threads : McTest(t)) /\ LockOthersUnchanged
    \/ (\E t \in Threads : McAppend(t)) /\ LockOthersUnchanged
    \/ (\E t \in Threads : McSort(t)) /\ LockOthersUnchanged
    \/ (\E t \in Threads : McCountRead(t)) /\ LockOthersUnchanged
    \/ (\E t \in Threads : McCountWrite(t)) /\ LockOthersUnchanged
    \/ (\E t \in Threads : McBytesRead(t)) /\ LockOthersUnchanged
    \/ (\E t \in Threads : McBytesWrite(t)) /\ LockOthersUnchanged
    \/ (\E t \in Threads : McPop(t)) /\ LockOthersUnchanged
    \/ (\E t \in Threads : MfSet(t)) /\ LockOthersUnchanged
    \/ (\E t \in Threads : UnsavedRead(t)) /\ LockOthersUnchanged
    \/ (\E t \in Threads : UnsavedWrite(t)) /\ LockOthersUnchanged
    \/ (\E t \in Threads : IntervalTest(t)) /\ LockOthersUnchanged
    \/ (\E t \in Threads : FlTest(t)) /\ LockOthersUnchanged
    \/ (\E t \in Threads : SaveStamp(t)) /\ LockOthersUnchanged
    \/ (\E t \in Threads : SaveOpenStmt(t)) /\ LockOthersUnchanged
    \/ (\E t \in Threads : SaveDumpStmt(t)) /\ LockOthersUnchanged
    \/ (\E t \in Threads : SaveReplaceStmt(t)) /\ LockOthersUnchanged
    \/ (\E t \in Threads : SaveReset(t)) /\ LockOthersUnchanged
    \/ (\E t \in Threads : LockRelease(t)) /\ LockOthersUnchanged

LockSpec == LockInit /\ [][LockNext]_vars

(***************************************************************************)
(* RateLimiter under threads (rate_limiter.py, lines 42-114): wait,        *)
(* record_response and stats, each taking self._lock.  Times of the clock  *)
(* are whole seconds, delays and _last_request_time tenths of a second.    *)
(***************************************************************************)
MaxWaitOps == 4       \* limiter calls started per behaviour of WaitSpec

\* Line 38: _last_request_time = 0.0 lies far before any time.time() of the
\* run; in tenths of a second before the start of the clock.
LastRequestAtStart == -100

WaitCodes == {200, 429, 500}

NoLimiterCall ==
    [pc |-> "idle", op |-> "none", wait_time |-> 0, wake |-> 0, sleepers |-> {}]

Sleeping(t) == wpc[t].pc = "sleeping"

WaitBudget == wops < MaxWaitOps

\* Lines 51-61: wait_time, in tenths of a second.
WaitTime ==
    IF now < backoff_until THEN (backoff_until - now) * 10
    ELSE LET elapsed == now * 10 - last_request_time
         IN  IF elapsed < current_delay THEN current_delay - elapsed ELSE 0

\* A thread calls wait, record_response or stats and reaches
\* "with self._lock" (lines 50, 73, 106).
LimiterCall(t, op) ==
    /\ wpc[t].pc = "idle"
    /\ WaitBudget
    /\ wops' = wops + 1
    /\ wpc' = [wpc EXCEPT ![t] = [NoLimiterCall EXCEPT !.pc = "acquire", !.op = op]]
    /\ UNCHANGED <<llock, last_request_time, wlast, limiterVars>>

\* __enter__ of "with self._lock".
LimiterAcquire(t) ==
    /\ wpc[t].pc = "acquire"
    /\ llock = 0
    /\ llock' = t
    /\ wpc' = [wpc EXCEPT ![t].pc = "body",
                          ![t].sleepers = {u \in Threads : Sleeping(u)}]
    /\ UNCHANGED <<last_request_time, wops, wlast, limiterVars>>

\* wait, lines 51-65.
WaitBody(t) ==
    /\ wpc[t].pc = "body"
    /\ wpc[t].op = "wait"
    /\ last_request_time' = now * 10 + WaitTime
    /\ wpc' = [wpc EXCEPT ![t].pc = "release", ![t].wait_time = WaitTime,
                          ![t].wake = now * 10 + WaitTime]
    /\ UNCHANGED <<llock, wops, wlast, limiterVars>>

\* record_response, lines 74-79.
RecordBody(t, status_code, response_time_ms) ==
    /\ wpc[t].pc = "body"
    /\ wpc[t].op = "record_response"
    /\ RecordResponse(status_code, response_time_ms)
    /\ lcall' = status_code
    /\ wpc' = [wpc EXCEPT ![t].pc = "release"]
    /\ UNCHANGED <<llock, last_request_time, wops, wlast>>

\* stats, lines 104-114: reads only.
StatsBody(t) ==
    /\ wpc[t].pc = "body"
    /\ wpc[t].op = "stats"
    /\ wpc' = [wpc EXCEPT ![t].pc = "release"]
    /\ UNCHANGED <<llock, last_request_time, wops, wlast, limiterVars>>

\* The lock held by a thread that goes on to time.sleep, kept across it.
LockOnLeavingKept(t) == IF wpc[t].wait_time > 0 THEN t ELSE 0

\* The lock once thread t leaves its with block: free (the end of the
\* block, line 65, comes before the sleep of lines 68-69).
LockOnLeaving(t) == 0

\* __exit__ of "with self._lock"; wait() then sleeps when wait_time > 0
\* (lines 68-69).  A call that ran from acquire to release while another
\* thread slept is noted.
LimiterRelease(t) ==
    /\ wpc[t].pc = "release"
    /\ llock' = LockOnLeaving(t)
    /\ wpc' = [wpc EXCEPT ![t] =
                 IF wpc[t].op = "wait" /\ wpc[t].wait_time > 0
                 THEN [@ EXCEPT !.pc = "sleeping", !.sleepers = {}]
                 ELSE NoLimiterCall]
    /\ wlast' = IF wpc[t].sleepers # {} THEN wlast \cup {wpc[t].op} ELSE wlast
    /\ UNCHANGED <<last_request_time, wops, limiterVars>>

\* time.sleep(wait_time) returns: the clock has reached the time the thread
\* was to wake at.
SleepEnds(t) ==
    /\ Sleeping(t)
    /\ now' = Max(now, (wpc[t].wake + 9) \div 10)
    /\ wpc' = [u \in Threads |->
                 IF u = t THEN NoLimiterCall
                 ELSE [wpc[u] EXCEPT !.sleepers = @ \ {t}]]
    /\ UNCHANGED <<llock, last_request_time, wops, wlast, min_delay, max_delay,
                   current_delay, window_size, response_times, error_count,
                   backoff_until, backoffs, lcall>>

\* __init__ (lines 24-40) with the defaults: min_delay 1.0, max_delay 5.0,
\* window_size 10.
RateLimiterNew ==
    /\ min_delay = 10
    /\ max_delay = 50
    /\ current_delay = min_delay
    /\ window_size = 10
    /\ response_times = <<>>
    /\ error_count = 0
    /\ backoff_until = 0
    /\ now = 0
    /\ backoffs = <<>>
    /\ lcall = 0

\* The limiter as constructed, or after a first wait() that had nothing to
\* wait for and so set _last_request_time to the time of the call.
WaitInit ==
    /\ RateLimiterNew
    /\ llock = 0
    /\ wpc = [t \in Threads |-> NoLimiterCall]
    /\ last_request_time \in {LastRequestAtStart, now * 10}
    /\ wops = 0
    /\ wlast = {}
    /\ TrackerIdle
    /\ RunIdle
    /\ RetryIdle
    /\ LockIdle /\ FormIdle /\ MainIdle /\ ValidatorIdle /\ SessionIdle

WaitOthersUnchanged ==
    UNCHANGED <<trackerVars, runVars, retryVars, lockVars, formVars, mainVars,
                validatorVars, sessionVars>>

\* The steps of calls that are under way.
WaitProgress ==
    \/ (\E t \in Threads : LimiterAcquire(t)) /\ WaitOthersUnchanged
    \/ (\E t \in Threads : WaitBody(t)) /\ WaitOthersUnchanged
    \/ /\ \E t \in Threads, c \in WaitCodes : RecordBody(t, c, SetMin(Latencies))
       /\ WaitOthersUnchanged
    \/ (\E t \in Threads : StatsBody(t)) /\ WaitOthersUnchanged
    \/ (\E t \in Threads : LimiterRelease(t)) /\ WaitOthersUnchanged
    \/ (\E t \in Threads : SleepEnds(t)) /\ WaitOthersUnchanged

WaitNext ==
    \/ /\ \E t \in Threads, op \in {"wait", "record_response", "stats"} :
              LimiterCall(t, op)
       /\ WaitOthersUnchanged
    \/ WaitProgress
    \/ /\ Tick
       /\ UNCHANGED <<lcall, waitVars>>
       /\ WaitOthersUnchanged

WaitSpec == WaitInit /\ [][WaitNext]_vars

(***************************************************************************)
(* SessionManager under threads (session_manager.py, lines 121-186).  The  *)
(* write of the state and the write of the event are separate steps of the *)
(* locked part, because wait_for_valid_session reads the event without     *)
(* self._lock; callbacks run after the lock is released and may call back  *)
(* into the manager.  Both callbacks are registered.  threading.Event:     *)
(* set() wakes every blocked waiter, and a woken waiter returns True       *)
(* whatever the flag has become by the time it runs again.  A thread's     *)
(* call begins when it gets the lock (or, for wait_for_valid_session,      *)
(* when it reads the event).                                               *)
(***************************************************************************)
MaxSessionCalls == 3  \* calls made by the threads per behaviour

NewCookies == {"cookie1"}

NoFrame == [op |-> "none", pc |-> "none", arg |-> "none", cb |-> "none",
            change |-> "none", refreshed |-> FALSE]

NoWaitResult ==
    [kind |-> "none", blocked |-> FALSE, settled |-> "none", refreshed |-> FALSE]

\* What has happened so far (history): the state as of the last change
\* that has reached the event, the changes whose callback is still to be
\* delivered, the callback delivered last, whether every callback so far
\* was the one of the oldest such change, the number of changes to EXPIRED
\* and the outcome of the wait_for_valid_session that finished last.
NoHistory ==
    [settled |-> "active", pending |-> <<>>, lastcb |-> "none", inorder |-> TRUE,
     expiries |-> 0, wait |-> NoWaitResult]

\* A thread outside any call; seen and intervened belong to the
\* on_session_expired callback it is in (history).
NoSessionThread == [stack |-> <<>>, seen |-> "none", intervened |-> FALSE]

Top(t) == sth[t].stack[Len(sth[t].stack)]

TopPc(t) == IF sth[t].stack = <<>> THEN "idle" ELSE Top(t).pc

\* The thread's record with its innermost call replaced by f.
WithTop(t, f) == [sth[t] EXCEPT !.stack = [@ EXCEPT ![Len(@)] = f]]

\* The sequence without its first entry equal to e.
RECURSIVE WithoutFirst(_, _)
WithoutFirst(q, e) ==
    IF q = <<>> THEN <<>>
    ELSE IF Head(q) = e THEN Tail(q)
    ELSE <<Head(q)>> \o WithoutFirst(Tail(q), e)

\* The first statement inside "with self._lock" of each call.
LockedEntry(op) ==
    CASE op = "mark_expired" -> "me_test"
      [] op = "mark_refreshing" -> "mr_test"
      [] op = "update_cookie" -> "uc_state"
      [] OTHER -> "read"

SessionCallsLeft == sess.ops < MaxSessionCalls

\* Whether thread u is between the release of its mark_expired and the end
\* of its on_session_expired callback.
InExpiredCallback(u) ==
    /\ sth[u].stack # <<>>
    /\ sth[u].stack[1].op = "mark_expired"
    /\ sth[u].stack[1].pc \in {"callback", "in_callback"}

\* The threads' records when thread t, now f, has taken the lock to change
\* something: the threads in an on_session_expired callback are no longer
\* alone.
AfterEntry(t, f, op) ==
    [u \in Threads |->
        IF u = t THEN f
        ELSE IF InExpiredCallback(u) /\ op # "state"
        THEN [sth[u] EXCEPT !.intervened = TRUE]
        ELSE sth[u]]

\* A thread calls mark_expired, mark_refreshing or update_cookie and gets
\* the lock (lines 128, 144, 157).
SessionCall(t, op, arg) ==
    /\ sth[t].stack = <<>>
    /\ SessionCallsLeft
    /\ slock = 0
    /\ slock' = t
    /\ sess' = [sess EXCEPT !.ops = @ + 1]
    /\ sth' = AfterEntry(t, [NoSessionThread EXCEPT
                               !.stack = <<[NoFrame EXCEPT !.op = op, !.arg = arg,
                                                           !.pc = LockedEntry(op)]>>],
                         op)
    /\ UNCHANGED slog

\* __enter__ of "with self._lock" in a call made by a callback (lines 73,
\* 128, 157).
SessionAcquire(t) ==
    /\ TopPc(t) = "acquire"
    /\ slock = 0
    /\ slock' = t
    /\ sth' = AfterEntry(t, WithTop(t, [Top(t) EXCEPT !.pc = LockedEntry(Top(t).op)]),
                         Top(t).op)
    /\ UNCHANGED <<sess, slog>>

\* mark_expired that takes the callback whatever the state.
ExpiryIsNewAlways(state) == TRUE

\* Line 129.
ExpiryIsNew(state) == state # "expired"

\* Lines 129-130.
MeTest(t) ==
    /\ TopPc(t) = "me_test"
    /\ IF ExpiryIsNew(sess.state)
       THEN /\ sess' = [sess EXCEPT !.state = "expired"]
            /\ sth' = [sth EXCEPT ![t] = WithTop(t, [Top(t) EXCEPT !.pc = "me_clear"])]
       ELSE /\ sess' = sess
            /\ sth' = [sth EXCEPT ![t] = WithTop(t, [Top(t) EXCEPT !.pc = "release"])]
    /\ slog' = [slog EXCEPT !.expiries = IF sess'.state # sess.state THEN @ + 1 ELSE @]
    /\ UNCHANGED slock

\* mark_expired that leaves the event as it is.
EventOnExpiryKept == sess.active_event

\* Line 131: self._active_event.clear().
EventOnExpiry == FALSE

\* Lines 131-132.
MeClear(t) ==
    /\ TopPc(t) = "me_clear"
    /\ sess' = [sess EXCEPT !.active_event = EventOnExpiry]
    /\ slog' = [slog EXCEPT !.settled = "expired", !.pending = Append(@, "expired")]
    /\ sth' = [sth EXCEPT ![t] = WithTop(t, [Top(t) EXCEPT !.pc = "release",
                                                          !.cb = "expired",
                                                          !.change = "to_expired"])]
    /\ UNCHANGED slock

\* Lines 145-146.
MrTest(t) ==
    /\ TopPc(t) = "mr_test"
    /\ sess' = [sess EXCEPT !.state = IF @ = "expired" THEN "refreshing" ELSE @]
    /\ slog' = [slog EXCEPT !.settled = IF sess.state = "expired" THEN "refreshing"
                                        ELSE @]
    /\ sth' = [sth EXCEPT ![t] = WithTop(t, [Top(t) EXCEPT
                  !.pc = "release",
                  !.change = IF sess.state = "expired" THEN "to_refreshing"
                             ELSE "none"])]
    /\ UNCHANGED slock

\* Lines 158-159.
UcState(t) ==
    /\ TopPc(t) = "uc_state"
    /\ sess' = [sess EXCEPT !.cookie = Top(t).arg, !.state = "active"]
    /\ sth' = [sth EXCEPT ![t] = WithTop(t, [Top(t) EXCEPT !.pc = "uc_set"])]
    /\ UNCHANGED <<slock, slog>>

\* Lines 160-161: Event.set() wakes the threads blocked in Event.wait.
UcSet(t) ==
    /\ TopPc(t) = "uc_set"
    /\ sess' = [sess EXCEPT !.active_event = TRUE]
    /\ slog' = [slog EXCEPT !.settled = "active", !.pending = Append(@, "refreshed")]
    /\ sth' = [u \in Threads |->
                 IF u = t
                 THEN WithTop(t, [Top(t) EXCEPT !.pc = "release", !.cb = "refreshed",
                                               !.change = "to_active"])
                 ELSE IF TopPc(u) = "blocked"
                 THEN WithTop(u, [Top(u) EXCEPT !.pc = "woken", !.refreshed = TRUE])
                 ELSE sth[u]]
    /\ UNCHANGED slock

\* The state property (lines 71-74), here read by a callback; what an
\* on_session_expired callback sees is kept.
ReadUnderLock(t) ==
    /\ TopPc(t) = "read"
    /\ sth' = [sth EXCEPT ![t] =
                 [WithTop(t, [Top(t) EXCEPT !.pc = "release"]) EXCEPT
                    !.seen = IF sth[t].stack[1].op = "mark_expired"
                             THEN sess.state ELSE @]]
    /\ UNCHANGED <<sess, slock, slog>>

\* The lock kept until the callback has run.
SessionLockAfterBlockKept(t) == IF Top(t).cb # "none" THEN t ELSE 0

\* The lock once the with block is left (lines 133, 147, 162): free, and
\* the callback runs after that (lines 135-140, 164-169).
SessionLockAfterBlock(t) == 0

\* __exit__ of "with self._lock"; a call that has no callback to invoke
\* returns, and with it the callback that made it and that callback's call.
SessionRelease(t) ==
    /\ TopPc(t) = "release"
    /\ slock' = SessionLockAfterBlock(t)
    /\ sth' = [sth EXCEPT ![t] =
                 IF Top(t).cb = "none" THEN NoSessionThread
                 ELSE [WithTop(t, [Top(t) EXCEPT !.pc = "callback"]) EXCEPT
                         !.intervened = IF Len(sth[t].stack) = 1 THEN FALSE ELSE @]]
    /\ UNCHANGED <<sess, slog>>

\* Lines 136-138 and 165-167: the callback is invoked.  The callback of an
\* outermost call may use the manager (body is the call it makes, "none"
\* for a callback that only returns, as do the callbacks of inner calls).
SessionCallback(t, body, arg) ==
    /\ TopPc(t) = "callback"
    /\ body # "none" => Len(sth[t].stack) = 1
    /\ slog' = [slog EXCEPT
                  !.inorder = @ /\ Head(slog.pending) = Top(t).cb,
                  !.pending = WithoutFirst(@, Top(t).cb),
                  !.lastcb = Top(t).cb]
    /\ sess' = [sess EXCEPT
                  !.expired_callbacks = IF Top(t).cb = "expired" THEN @ + 1 ELSE @,
                  !.refreshed_callbacks = IF Top(t).cb = "refreshed" THEN @ + 1 ELSE @]
    /\ sth' = [sth EXCEPT ![t] =
                 IF body = "none" THEN NoSessionThread
                 ELSE [sth[t] EXCEPT !.stack =
                         <<[Top(t) EXCEPT !.pc = "in_callback"],
                           [NoFrame EXCEPT !.op = body, !.pc = "acquire",
                                           !.arg = arg]>>]]
    /\ UNCHANGED slock

\* A thread calls wait_for_valid_session, line 183: with the event set
\* Event.wait returns True at once; otherwise the thread blocks.
WaitCheck(t) ==
    /\ sth[t].stack = <<>>
    /\ SessionCallsLeft
    /\ sess' = [sess EXCEPT !.ops = @ + 1]
    /\ IF sess.active_event
       THEN /\ slog' = [slog EXCEPT !.wait = [kind |-> "returned", blocked |-> FALSE,
                                              settled |-> slog.settled,
                                              refreshed |-> FALSE]]
            /\ sth' = sth
       ELSE /\ slog' = slog
            /\ sth' = [sth EXCEPT ![t] =
                         [NoSessionThread EXCEPT
                            !.stack = <<[NoFrame EXCEPT
                                           !.op = "wait_for_valid_session",
                                           !.pc = "blocked"]>>]]
    /\ UNCHANGED slock

\* Line 183: a woken waiter runs again and Event.wait returns True.
WaitWoken(t) ==
    /\ TopPc(t) = "woken"
    /\ slog' = [slog EXCEPT !.wait = [kind |-> "returned", blocked |-> TRUE,
                                      settled |-> slog.settled,
                                      refreshed |-> Top(t).refreshed]]
    /\ sth' = [sth EXCEPT ![t] = NoSessionThread]
    /\ UNCHANGED <<sess, slock>>

\* A timed-out wait that returns as if the session were active.
TimeoutOutcomeIgnored == "returned"

\* Lines 183-186: Event.wait returned False.
TimeoutOutcome == "raised"

\* The timeout passes while the thread is still blocked.
WaitTimeout(t) ==
    /\ TopPc(t) = "blocked"
    /\ slog' = [slog EXCEPT !.wait = [kind |-> TimeoutOutcome, blocked |-> TRUE,
                                      settled |-> slog.settled,
                                      refreshed |-> Top(t).refreshed]]
    /\ sth' = [sth EXCEPT ![t] = NoSessionThread]
    /\ UNCHANGED <<sess, slock>>

SessionThreadsInit ==
    /\ sess = SessionManagerNew("cookie0")
    /\ slast = NoSessionCall
    /\ slock = 0
    /\ sth = [t \in Threads |-> NoSessionThread]
    /\ slog = NoHistory
    /\ TrackerIdle
    /\ RunIdle
    /\ LimiterIdle
    /\ RetryIdle
    /\ LockIdle /\ WaitIdle /\ FormIdle /\ MainIdle /\ ValidatorIdle

SessionThreadsFrame ==
    UNCHANGED <<trackerVars, runVars, limiterVars, retryVars, lockVars,
                waitVars, formVars, mainVars, validatorVars, slast>>

\* The steps that take the lock inside a callback, run under the lock and
\* release it.
SessionLockSteps ==
    \/ (\E t \in Threads : SessionAcquire(t)) /\ SessionThreadsFrame
    \/ (\E t \in Threads : MeTest(t)) /\ SessionThreadsFrame
    \/ (\E t \in Threads : MeClear(t)) /\ SessionThreadsFrame
    \/ (\E t \in Threads : MrTest(t)) /\ SessionThreadsFrame
    \/ (\E t \in Threads : UcState(t)) /\ SessionThreadsFrame
    \/ (\E t \in Threads : UcSet(t)) /\ SessionThreadsFrame
    \/ (\E t \in Threads : ReadUnderLock(t)) /\ SessionThreadsFrame
    \/ (\E t \in Threads : SessionRelease(t)) /\ SessionThreadsFrame

SessionThreadsNext ==
    \/ /\ \E t \in Threads, op \in {"mark_expired", "mark_refreshing"} :
              SessionCall(t, op, "none")
       /\ SessionThreadsFrame
    \/ /\ \E t \in Threads, c \in NewCookies : SessionCall(t, "update_cookie", c)
       /\ SessionThreadsFrame
    \/ SessionLockSteps
    \/ (\E t \in Threads : SessionCallback(t, "none", "none")) /\ SessionThreadsFrame
    \/ /\ \E t \in Threads, body \in {"state", "mark_expired"} :
              SessionCallback(t, body, "none")
       /\ SessionThreadsFrame
    \/ /\ \E t \in Threads, c \in NewCookies : SessionCallback(t, "update_cookie", c)
       /\ SessionThreadsFrame
    \/ (\E t \in Threads : WaitCheck(t)) /\ SessionThreadsFrame
    \/ (\E t \in Threads : WaitWoken(t)) /\ SessionThreadsFrame
    \/ (\E t \in Threads : WaitTimeout(t)) /\ SessionThreadsFrame

SessionThreadsSpec == SessionThreadsInit /\ [][SessionThreadsNext]_vars

(***************************************************************************)
(* Both loops that fetch: a run is either run_concurrent with its workers  *)
(* or JamabandiHTTPScraper.run().                                          *)
(***************************************************************************)
LoopsInit == RunInit \/ SeqInit

LoopsNext == RunNext \/ SeqNext

LoopsSpec == LoopsInit /\ [][LoopsNext]_vars

(***************************************************************************)
(* One download_nakal call (lines 570-678) on a disk whose writes may      *)
(* fail.  The run has fetched the ids below khewat, each recorded as       *)
(* completed or failed, since set_config saved; wk[1].pc is the branch     *)
(* the call takes, rpc where the call is.                                  *)
(***************************************************************************)
\* The ids of the run: as many as make one automatic save.
NakalIds == 1..DefaultSaveInterval

\* The tracker after the fetches of the ids below khewat, those of C
\* completed and the others timed out.
DataAfter(khewat, C) ==
    [DefaultData EXCEPT
       !.config = "set",
       !.completed = SeqOfSet(C),
       !.failed = [s \in {StrKey(k) : k \in (1..(khewat - 1)) \ C} |-> "Timeout"],
       !.download_count = Cardinality(C),
       !.start_time = 1,
       !.last_updated = 1]

NakalKhewat == batches[1][wk[1].i]

\* Lines 571-666 up to the progress-store update of the branch taken; the
\* updates of the timeout and exception branches are made in the except
\* clauses (lines 669-678).
NakalRequest(o) ==
    /\ rpc = "nakal"
    /\ wk' = [wk EXCEPT ![1].pc = o, ![1].tried = @ \cup {NakalKhewat}]
    /\ CASE NakalMarks(o) = "none" ->
              /\ rpc' = "nakal_false"
              /\ UNCHANGED trackerVars
         [] NakalMarks(o) = "complete" ->
              /\ MarkComplete(1, NakalKhewat, 0)
              /\ rpc' = "nakal_try_update"
         [] OTHER ->
              /\ MarkFailed(1, NakalKhewat, NakalError(o))
              /\ rpc' = IF o \in {"timeout", "exception"} THEN "nakal_handler_update"
                        ELSE "nakal_try_update"
    /\ UNCHANGED <<limiterVars, retryVars, extVars, num_workers, pending, batches, loaded>>

\* The update made in the try block returned: the flag is cleared where
\* the branch does so, and the call returns True (lines 590, 610, 623-624,
\* 666-667).
NakalUpdateReturned ==
    /\ rpc = "nakal_try_update"
    /\ pc[1] = "idle"
    /\ ~last.raised
    /\ wk' = [wk EXCEPT
                ![1].form_initialized = IF NakalClearsForm(wk[1].pc) THEN FALSE ELSE @,
                ![1].ok = IF NakalMarks(wk[1].pc) = "complete"
                          THEN @ \cup {NakalKhewat} ELSE @]
    /\ rpc' = "nakal_true"
    /\ UNCHANGED <<trackerVars, limiterVars, retryVars, extVars, num_workers, pending, batches, loaded>>

\* The update made in the try block raised (its save failed): the clause
\* "except Exception" of lines 673-676 calls mark_failed with the text of
\* the exception.
NakalUpdateRaised ==
    /\ rpc = "nakal_try_update"
    /\ pc[1] = "idle"
    /\ last.raised
    /\ MarkFailed(1, NakalKhewat, "write failed")
    /\ rpc' = "nakal_handler_update"
    /\ UNCHANGED <<limiterVars, retryVars, extVars, num_workers, pending, batches, wk, loaded>>

\* The mark_failed of an except clause returned: lines 672 and 678.
NakalHandlerReturned ==
    /\ rpc = "nakal_handler_update"
    /\ pc[1] = "idle"
    /\ ~last.raised
    /\ rpc' = "nakal_true"
    /\ UNCHANGED <<trackerVars, limiterVars, retryVars, extVars, num_workers, pending, batches, wk, loaded>>

\* The mark_failed of an except clause raised: nothing in download_nakal
\* catches it.
NakalHandlerRaised ==
    /\ rpc = "nakal_handler_update"
    /\ pc[1] = "idle"
    /\ last.raised
    /\ rpc' = "nakal_raised"
    /\ UNCHANGED <<trackerVars, limiterVars, retryVars, extVars, num_workers, pending, batches, wk, loaded>>

NakalFaultInit ==
    /\ \E khewat \in NakalIds : \E C \in SUBSET (1..(khewat - 1)) :
          /\ data = DataAfter(khewat, C)
          /\ unsaved = khewat - 1
          /\ wk = <<[NewWorker EXCEPT !.pc = "download_nakal", !.i = khewat,
                                      !.form_initialized = TRUE,
                                      !.tried = 1..(khewat - 1), !.ok = C]>>
    /\ fs = [p \in Paths |->
               IF p = filepath
               THEN [exists |-> TRUE, text |-> TRUE, complete |-> TRUE,
                     content |-> DataAfter(1, {})]
               ELSE Absent]
    /\ loaded = data
    /\ save_interval = DefaultSaveInterval
    /\ lock = 0
    /\ pc = [t \in RunThreads |-> "idle"]
    /\ alive = TRUE
    /\ clock = 1
    /\ last = NoCall
    /\ hist = NoHist
    /\ rpc = "nakal"
    /\ num_workers = 1
    /\ pending = SeqOfSet(NakalIds)
    /\ batches = <<pending>>
    /\ LimiterIdle
    /\ RetryIdle
    /\ ExtIdle

NakalFaultNext ==
    \/ \E o \in Outcomes : NakalRequest(o)
    \/ NakalUpdateReturned
    \/ NakalUpdateRaised
    \/ NakalHandlerReturned
    \/ NakalHandlerRaised
    \/ SaveOpen(1) /\ UNCHANGED <<runVars, limiterVars, retryVars, extVars>>
    \/ SaveDump(1) /\ UNCHANGED <<runVars, limiterVars, retryVars, extVars>>
    \/ SaveReplace(1) /\ UNCHANGED <<runVars, limiterVars, retryVars, extVars>>
    \/ SaveFail(1) /\ UNCHANGED <<runVars, limiterVars, retryVars, extVars>>

NakalFaultSpec == NakalFaultInit /\ [][NakalFaultNext]_vars

(***************************************************************************)
(* Properties of the progress tracker, checked under Spec.                 *)
(***************************************************************************)
StrictlyAscending(s) == \A i \in 1..(Len(s) - 1) : s[i] < s[i + 1]

TargetFile == fs[filepath]

\* The step is a call of the tracker operation op (the clock advances with
\* every call, and `last` names the call).
Called(op) == clock' = clock + 1 /\ last'.op = op

\* C1: for every id, after any sequence of tracker operations the id is
\* never in both `completed` and `failed`.  (The code does not keep this:
\* mark_failed never looks at `completed`.)
C1_NeverCompletedAndFailed ==
    \A k \in Ids : ~(k \in Range(data.completed) /\ StrKey(k) \in DOMAIN data.failed)

\* C3: at every point during and after a save, and after a kill at any
\* point, the progress file is either what it was before the step or the
\* complete new state; it is never a truncated or partial file.
C3_AtomicPersistence ==
    /\ [](TargetFile.exists => TargetFile.complete)
    /\ [][\/ TargetFile' = TargetFile
          \/ TargetFile' = [exists |-> TRUE, text |-> TRUE, complete |-> TRUE,
                           content |-> data]]_vars

\* C3 witness: the process was killed between the temp-file write and the
\* rename, with a previous progress file in place.
C3_KilledBeforeRename ==
    /\ ~alive
    /\ fs[temp_path].exists /\ fs[temp_path].complete
    /\ TargetFile.exists
    /\ TargetFile.content # fs[temp_path].content

\* C5: mark_complete of an id already in `completed` leaves `completed`,
\* download_count and bytes_downloaded unchanged, so every distinct id is
\* counted once.
C5_IdempotentCompletion ==
    /\ [](data.download_count = Len(data.completed))
    /\ [][(Called("mark_complete") /\ last'.id \in Range(data.completed)) =>
                /\ data'.completed = data.completed
                /\ data'.download_count = data.download_count
                /\ data'.bytes_downloaded = data.bytes_downloaded]_vars

\* C5 witness: a repeated mark_complete has been made on a tracker that
\* counts one download.
C5_RepeatedCall ==
    /\ last.op = "mark_complete"
    /\ last.dup
    /\ data.download_count = 1

\* C6: `completed` is strictly ascending (hence without duplicates) after
\* any sequence of mark_complete calls.
C6_CompletedStrictlyAscending == StrictlyAscending(data.completed)

\* C6 witness: the smallest id was completed last, after two larger ones.
C6_OutOfOrderInsert ==
    /\ data.completed = <<1, 2, 3>>
    /\ last.op = "mark_complete"
    /\ last.id = 1
    /\ ~last.dup

\* C7: get_pending(start, end) returns, ascending and without repeats,
\* exactly the ids of [start, end] that are not in `completed`, and changes
\* nothing of the tracker.
C7_GetPending ==
    /\ [](last.op = "get_pending" =>
            /\ StrictlyAscending(last.ret)
            /\ Range(last.ret) =
                 {k \in last.id..last.end : k \notin Range(data.completed)})
    /\ [][Called("get_pending") =>
            UNCHANGED <<data, unsaved, fs, lock, pc, save_interval>>]_vars

\* C7 witness: get_pending(1, 3) answered [1, 3] on a tracker that has
\* completed 2.
C7_PendingWithGap ==
    /\ last.op = "get_pending"
    /\ last.ret = <<1, 3>>
    /\ data.completed = <<2>>

AllIdle == alive /\ \A t \in DOMAIN pc : pc[t] = "idle"

SavedFile(d) == [exists |-> TRUE, text |-> TRUE, complete |-> TRUE, content |-> d]

\* C17: constructing the tracker on a progress file that exists but cannot
\* be parsed does not raise, and gives the tracker of a fresh start.  (The
\* code does not keep this for a file whose bytes are not UTF-8: line 201
\* catches json.JSONDecodeError and IOError only.)  Checked under LoadSpec.
C17_UnparsableFileLoadsEmpty ==
    (/\ last.op = "construct"
     /\ TargetFile.exists
     /\ ~(TargetFile.text /\ TargetFile.complete))
        => /\ ~last.raised
           /\ alive
           /\ data = DefaultData

\* C18: when the write of an atomic save fails, the call that triggered it
\* raises and leaves the unsaved counter as it was; a call that triggered a
\* save and returned normally has its state in the progress file.  Checked
\* under FaultSpec.
C18_WriteFailurePropagates ==
    /\ []((AllIdle /\ last.triggered /\ ~last.raised) =>
             /\ TargetFile = SavedFile(data)
             /\ unsaved = 0)
    /\ []((last.raised /\ last.op \in {"mark_complete", "mark_failed", "flush"}) =>
             unsaved > 0)
    /\ [][\A t \in Threads : SaveFail(t) =>
            /\ last'.raised
            /\ unsaved' = unsaved
            /\ lock' = 0]_vars

\* C18 witness: a mark_complete that reached the save interval raised while
\* the temp file was being written; the counter still stands at the interval.
C18_MarkRaisedOnWrite ==
    /\ AllIdle
    /\ last.op = "mark_complete"
    /\ last.raised
    /\ unsaved = save_interval
    /\ fs[temp_path].exists /\ ~fs[temp_path].complete
    /\ ~TargetFile.exists

\* C19: flush() with a counter above zero writes the whole current state
\* and resets the counter, whatever the save interval; with the counter at
\* zero it changes neither the memory nor the files.
C19_Flush ==
    /\ []((AllIdle /\ last.op = "flush") =>
             /\ unsaved = 0
             /\ ~last.dup => TargetFile = SavedFile(data))
    /\ [][\A t \in Threads : (Flush(t) /\ unsaved = 0) =>
            UNCHANGED <<data, fs, unsaved, lock, pc>>]_vars
    /\ [][\A t \in Threads : (Flush(t) /\ unsaved > 0) =>
            /\ pc'[t] = "save_open"
            /\ data' = [data EXCEPT !.last_updated = clock']]_vars

\* C19 witness: a flush with one unsaved change and a save interval of two
\* has written the file.
C19_FlushedBelowInterval ==
    /\ AllIdle
    /\ last.op = "flush"
    /\ ~last.dup
    /\ save_interval = 2
    /\ unsaved = 0
    /\ TargetFile = SavedFile(data)
    /\ data.completed # <<>>

\* C20: every mark_complete and mark_failed call adds one to the unsaved
\* counter, and the call that brings it to save_interval saves and resets
\* it: between calls the counter is in 0..save_interval-1, it is the number
\* of mark calls the progress file misses, and at zero the file holds the
\* whole state.  (Spec has no failing writes; those are C18's.)
C20_SaveInterval ==
    /\ [](AllIdle =>
             /\ 0 <= unsaved /\ unsaved < save_interval
             /\ hist.marks = unsaved
             /\ hist.marks = 0 => Load(TargetFile) = data)
    /\ [][Called("mark_complete") \/ Called("mark_failed")
            => unsaved' = unsaved + 1]_vars

\* C20 witness: with a save interval of two, the second mark call (a
\* mark_failed after a mark_complete) saved both.
C20_SecondMarkSaved ==
    /\ AllIdle
    /\ save_interval = 2
    /\ last.op = "mark_failed"
    /\ last.triggered
    /\ unsaved = 0
    /\ TargetFile.content.completed # <<>>
    /\ TargetFile.content.failed # NoFailed

(***************************************************************************)
(* Properties of run_concurrent and its workers, checked under RunSpec.    *)
(***************************************************************************)
\* C2: when a worker's fetch of an id has succeeded and the worker is past
\* the tracker call, the id is in the progress file on disk.  (The code
\* does not keep this: the tracker is built with save_interval 5 and the
\* run never flushes.)
C2_CompletionsDurable ==
    \A w \in DOMAIN wk :
        pc[w] = "idle" => wk[w].ok \subseteq Range(TargetFile.content.completed)

\* The ids of worker w's chunk from position i on.
ChunkFrom(w, i) == {batches[w][j] : j \in i..Len(batches[w])}

\* The ids of worker w's chunk before position i.
ChunkBefore(w, i) == {batches[w][j] : j \in 1..(i - 1)}

\* C4 as claimed: after session expiry on id k of its chunk, the worker's
\* earlier successes are in `completed`, and k and every later id of the
\* chunk are in neither `completed` nor `failed`.
C4_ExpiryLeavesRestInNeither ==
    \A w \in DOMAIN wk :
        wk[w].pc = "stopped_expired" =>
            /\ wk[w].ok \subseteq Range(data.completed)
            /\ \A k \in ChunkFrom(w, wk[w].i) :
                   /\ k \notin Range(data.completed)
                   /\ StrKey(k) \notin DOMAIN data.failed

\* C4 as amended: after session expiry on id k the worker has stopped for
\* good having requested exactly the ids up to k; its earlier successes are
\* in `completed`; k and every later id of the chunk are not in
\* `completed`, and their `failed` entries are exactly those loaded from
\* the progress file: the run records nothing for them.
C4_ExpiryRecordsNothing ==
    /\ [](\A w \in DOMAIN wk :
            wk[w].pc = "stopped_expired" =>
                /\ wk[w].tried = ChunkBefore(w, wk[w].i + 1)
                /\ wk[w].ok \subseteq Range(data.completed)
                /\ \A k \in ChunkFrom(w, wk[w].i) :
                       /\ k \notin Range(data.completed)
                       /\ StrKey(k) \in DOMAIN data.failed
                            <=> StrKey(k) \in DOMAIN loaded.failed
                       /\ StrKey(k) \in DOMAIN data.failed
                            => data.failed[StrKey(k)] = loaded.failed[StrKey(k)])
    /\ [][\A w \in DOMAIN wk :
            wk[w].pc = "stopped_expired" => wk'[w] = wk[w]]_vars

\* C4 witness: a worker stopped on session expiry in the middle of its
\* chunk, after a success, while the run has ended.
C4_ExpiredMidChunk ==
    \E w \in DOMAIN wk :
        /\ wk[w].pc = "stopped_expired"
        /\ wk[w].i > 1
        /\ wk[w].i < Len(batches[w])
        /\ batches[w][1] \in wk[w].ok
        /\ rpc = "done"

\* C11: a step changes the state of one worker at most, so a worker that
\* stops early or crashes stops only itself; a worker that finishes has
\* requested or skipped (as already completed) every id of its chunk; and
\* once every worker has ended, crashed ones included, the dispatcher goes
\* on to its summary.
C11_WorkersIsolated ==
    /\ [](\A w \in DOMAIN wk :
            wk[w].pc = "finished" =>
                Range(batches[w]) \subseteq wk[w].tried \cup Range(data.completed))
    /\ []((rpc \in {"summary", "done"}) =>
            \A w \in DOMAIN wk :
                wk[w].pc \in {"finished", "stopped_init", "stopped_setup",
                              "stopped_expired", "crashed"})
    /\ [][\A v, w \in DOMAIN wk :
            (wk'[v] # wk[v] /\ wk'[w] # wk[w]) => v = w]_vars
    /\ [][(rpc = "workers" /\ rpc' # rpc) => rpc' = "summary"]_vars
    /\ [][rpc = "summary" => rpc' \in {"summary", "done"}]_vars

\* C11 witness: the run has reached its summary with one worker crashed and
\* a sibling that went through its whole chunk.
C11_CrashedSiblingFinished ==
    /\ rpc = "done"
    /\ \E v, w \in DOMAIN wk :
           /\ wk[v].pc = "crashed"
           /\ wk[w].pc = "finished"
           /\ wk[w].tried = Range(batches[w])
           /\ Len(batches[w]) > 1

\* C12: a run that started with something pending ends with the
\* end-of-run summary, in sequential mode too, whatever made it stop early.
\* (run() does not keep this: when the first initialize_form or
\* setup_form_selections fails it returns at lines 688 and 693, before the
\* summary.)  Checked under SeqSpec.
C12_RunEndsWithSummary ==
    rpc \in {"done", "seq_returned", "seq_raised"} => rpc = "done"

(***************************************************************************)
(* Properties of the batch split, checked under SplitSpec.                 *)
(***************************************************************************)
RECURSIVE Flatten(_)
Flatten(ss) == IF ss = <<>> THEN <<>> ELSE Head(ss) \o Flatten(Tail(ss))

\* C10: a non-empty ascending pending list is split over
\* min(requested, len) workers into non-empty chunks that are consecutive
\* slices of it, pairwise disjoint and together the whole list, of sizes
\* len // workers plus one for each of the first len % workers chunks.
C10_ContiguousSplit ==
    rpc = "split_done" =>
        LET n == Len(pending)
            k == Min(num_workers, n)
        IN  /\ Len(batches) = k
            /\ \A w \in 1..Len(batches) :
                   /\ batches[w] # <<>>
                   /\ Len(batches[w]) = (n \div k) + (IF w <= n % k THEN 1 ELSE 0)
            /\ Flatten(batches) = pending
            /\ \A v, w \in 1..Len(batches) :
                   v # w => Range(batches[v]) \cap Range(batches[w]) = {}

\* C10 witness: 10 ids over 3 workers were split into chunks of 4, 3 and 3.
C10_TenOverThree ==
    /\ rpc = "split_done"
    /\ pending = <<1, 2, 3, 4, 5, 6, 7, 8, 9, 10>>
    /\ num_workers = 3
    /\ batches = <<<<1, 2, 3, 4>>, <<5, 6, 7>>, <<8, 9, 10>>>>

(***************************************************************************)
(* Properties of the rate limiter, checked under LimiterSpec.              *)
(***************************************************************************)
\* C8: after any sequence of record_response calls,
\* min_delay <= current_delay <= max_delay.
C8_DelayWithinBounds ==
    /\ min_delay <= current_delay
    /\ current_delay <= max_delay

\* C8 witness: errors have pushed the delay up to max_delay, where the cap
\* holds it.
C8_DelayAtCap ==
    /\ min_delay < max_delay
    /\ current_delay = max_delay
    /\ error_count >= 3

\* C9 as claimed: every 429 response increments the error counter and sets
\* backoff_until to now + min(60, 2^error_count); three consecutive 429
\* responses have strictly increasing backoff times, none above 60.
C9_BackoffStrictlyIncreasing ==
    /\ [](/\ \A i \in DOMAIN backoffs : backoffs[i] <= BackoffCap
          /\ \A i \in 1..(Len(backoffs) - 1) : backoffs[i] < backoffs[i + 1])
    /\ [][RecordResponse(429, 100) =>
            /\ error_count' = error_count + 1
            /\ backoff_until' = now + Min(BackoffCap, 2 ^ error_count')]_vars

\* C9 as amended: the increase is strict only below the cap; once the
\* backoff time is 60 it stays 60.
C9_BackoffGrowsToCap ==
    /\ [](/\ \A i \in DOMAIN backoffs : backoffs[i] <= BackoffCap
          /\ \A i \in 1..(Len(backoffs) - 1) :
                \/ backoffs[i] < backoffs[i + 1]
                \/ backoffs[i] = BackoffCap /\ backoffs[i + 1] = BackoffCap)
    /\ [][RecordResponse(429, 100) =>
            /\ error_count' = error_count + 1
            /\ backoff_until' = now + Min(BackoffCap, 2 ^ error_count')]_vars

\* C9 witness: three consecutive 429 responses, the last one capped.
C9_ThreeConsecutive429 ==
    /\ Len(backoffs) = 3
    /\ backoffs = <<16, 32, 60>>
    /\ backoff_until = now + 60

\* C22: record_response with a 4xx status other than 429 leaves the limiter
\* as it was: current_delay, the error counter, the latency window and
\* backoff_until (and the configured bounds) keep their values.
C22_ClientErrorNoChange ==
    [][(lcall' >= 400 /\ lcall' < 500 /\ lcall' # 429) =>
          UNCHANGED <<current_delay, error_count, response_times, backoff_until,
                      min_delay, max_delay, window_size>>]_vars

\* C22 witness: a 4xx response was recorded on a limiter that had errors, a
\* raised delay, a backoff and recorded latencies to lose.
C22_ClientErrorAfterErrors ==
    /\ lcall \in {400, 404, 499}
    /\ error_count > 0
    /\ current_delay > min_delay
    /\ backoff_until > 0
    /\ response_times # <<>>

\* C23 as claimed: a record_response call with a success status never
\* lowers current_delay when the error counter is greater than zero at the
\* time of the call.  (With a counter of one the call first brings it to
\* zero, line 97, and then lowers the delay.)
C23_NoDecreaseWithErrors ==
    [][(lcall' > 0 /\ lcall' < 400 /\ error_count > 0) =>
          current_delay' >= current_delay]_vars

\* C23 as amended: a success never lowers current_delay when the counter is
\* greater than one at the time of the call, that is, still above zero
\* after the call's own decrement; and whenever a success lowers the delay
\* the counter is zero afterwards.
C23_NoDecreaseWhileErrorsRemain ==
    [][(lcall' > 0 /\ lcall' < 400) =>
          /\ error_count > 1 => current_delay' >= current_delay
          /\ current_delay' < current_delay => error_count' = 0]_vars

\* C23 witness: a fast success filled the window on a limiter above its
\* minimum delay, and an error is still counted.
C23_SuccessWithErrorsLeft ==
    /\ lcall = 200
    /\ error_count >= 1
    /\ Len(response_times) >= window_size
    /\ SumSeq(response_times) < SlowAverage * Len(response_times)
    /\ current_delay > min_delay

(***************************************************************************)
(* Properties of the retry manager, checked under RetrySpec.               *)
(***************************************************************************)
ItemOf(F, k) == F[IndexOf(F, k)]

\* One iteration of retry_all's loop: download_func was called for
\* rt.retryable[rt.idx].
Fetched == rt.pc = "loop" /\ rt'.idx = rt.idx + 1

\* The positions of the items that are transient with retry_count below
\* max_retries.
Eligible ==
    {i \in DOMAIN failures :
        /\ failures[i].failure_type = "transient"
        /\ failures[i].retry_count < max_retries}

\* C14: get_retryable returns, in insertion order, exactly the ids whose
\* failure is transient and whose retry_count is below max_retries;
\* retry_all calls download_func for an id only while its retry_count is
\* below max_retries, so no item is fetched more than max_retries times,
\* and a retry_all that finds nothing eligible returns the zero counts
\* without fetching.
C14_RetriesBounded ==
    /\ [](/\ rlast.op \in {"get_retryable", "retry_all_begin"} =>
                /\ Range(rlast.ret) = {failures[i].khewat : i \in Eligible}
                /\ Len(rlast.ret) = Cardinality(Eligible)
                /\ \A i, j \in DOMAIN rlast.ret :
                       i < j => ItemOf(failures, rlast.ret[i]).stamp
                                  < ItemOf(failures, rlast.ret[j]).stamp
          /\ (rlast.op = "retry_all" /\ rlast.counts[1] = 0) => Eligible = {}
          /\ \A i \in DOMAIN failures : failures[i].fetched <= max_retries)
    /\ [][Fetched =>
            /\ HasItem(failures, rt.retryable[rt.idx])
            /\ ItemOf(failures, rt.retryable[rt.idx]).failure_type = "transient"
            /\ ItemOf(failures, rt.retryable[rt.idx]).retry_count < max_retries]_vars

\* C14 witness: a transient item has been fetched max_retries times, and the
\* retry_all that followed retried nothing.
C14_ExhaustedItemSkipped ==
    /\ rlast.op = "retry_all"
    /\ rlast.counts = <<0, 0, 0>>
    /\ \E i \in DOMAIN failures :
           /\ failures[i].failure_type = "transient"
           /\ failures[i].fetched = max_retries

\* C15: for each retryable id, retry_all removes the item when
\* download_func returns True, and otherwise keeps it with retry_count one
\* higher, the exception text (when one was raised) being the new error; an
\* exception of download_func does not end the call, the other items are
\* left alone, and the returned counts satisfy
\* retried = succeeded + failed = number of ids retryable at the start.
C15_RetryAllEffects ==
    /\ [](rlast.op = "retry_all" =>
             /\ rlast.counts[1] = rlast.counts[2] + rlast.counts[3]
             /\ rlast.counts[1] = Len(rlast.ret))
    /\ [][Fetched =>
            LET k == rt.retryable[rt.idx]
            IN  /\ rlast'.id = k
                /\ IF rlast'.kind = "true"
                   THEN ~HasItem(failures', k)
                   ELSE /\ HasItem(failures', k)
                        /\ ItemOf(failures', k).retry_count
                             = ItemOf(failures, k).retry_count + 1
                        /\ ItemOf(failures', k).error
                             = IF rlast'.kind = "raise" THEN rlast'.ret
                               ELSE ItemOf(failures, k).error
                /\ rt'.pc = "loop"
                /\ rt'.succeeded + rt'.failed = rt.succeeded + rt.failed + 1
                /\ \A j \in RetryIds \ {k} :
                       /\ HasItem(failures', j) <=> HasItem(failures, j)
                       /\ HasItem(failures, j)
                            => ItemOf(failures', j) = ItemOf(failures, j)]_vars

\* C15 witness: a retry_all over two ids returned after one download_func
\* call returned True and the other raised; the raising id is kept with the
\* exception text and one more retry.
C15_OneSucceededOneRaised ==
    /\ rlast.op = "retry_all"
    /\ rlast.counts = <<2, 1, 1>>
    /\ Len(failures) = 1
    /\ failures[1].error = Text_DownloadFailed
    /\ failures[1].retry_count = 1

\* The classification the patterns of line 42 give to the texts of the
\* model, written out.
PermanentTexts == {Text_NoRecordFound, Text_NOT_FOUND, Text_InvalidResponse}

ExpectedClass(t) == IF t \in PermanentTexts THEN "permanent" ELSE "transient"

\* C16: an error text is permanent exactly when it contains, in any case,
\* one of "no record", "not found", "invalid", "does not exist"; an id whose
\* failure is permanent is never returned by get_retryable and never chosen
\* by retry_all for download_func.  (The second half fails: record_failure
\* on an id that already has an item, and an exception of download_func,
\* replace the item's error text and leave its failure_type as it was, so an
\* id whose failure reads "No record found" is still retried when its first
\* failure was a timeout.)
C16_PermanentNeverRetried ==
    /\ \A t \in FailureTexts \cup {Text_DownloadFailed, Text_InvalidResponse} :
           ClassifyError(t) = ExpectedClass(t)
    /\ \A i \in DOMAIN failures :
           failures[i].failure_type = ExpectedClass(failures[i].first)
    /\ rlast.op \in {"get_retryable", "retry_all_begin"} =>
           \A i \in DOMAIN failures :
               ExpectedClass(failures[i].error) = "permanent"
                   => failures[i].khewat \notin Range(rlast.ret)

\* What does hold for C16: the classification itself, and that an item
\* whose stored failure_type is permanent is never returned or fetched.
RetryStoredTypeRespected ==
    /\ \A t \in FailureTexts \cup {Text_DownloadFailed, Text_InvalidResponse} :
           ClassifyError(t) = ExpectedClass(t)
    /\ \A i \in DOMAIN failures :
           failures[i].failure_type = ExpectedClass(failures[i].first)
    /\ rlast.op \in {"get_retryable", "retry_all_begin"} =>
           \A i \in DOMAIN failures :
               failures[i].failure_type = "permanent"
                   => failures[i].khewat \notin Range(rlast.ret)

(***************************************************************************)
(* Properties of the whole run followed by retry_all, under E2ESpec.       *)
(***************************************************************************)
\* What the pass leaves: 1, 2 and 5 completed, 3 and 4 failed.
C13_FirstPass ==
    (rpc = "done" /\ AllIdle) =>
        /\ data.completed = <<1, 2, 5>>
        /\ data.failed = (StrKey(3) :> "No record found") @@ (StrKey(4) :> "Timeout")

\* C13: over the range 1..5 with khewats 1, 2 and 5 fetched, 3 answered "no
\* record" and 4 timing out, the pass leaves completed = [1, 2, 5] and
\* failed = {3: "No record found", 4: "Timeout"}; the retry_all that follows
\* leaves completed = [1, 2, 4, 5] and failed = {3: "No record found"}.
\* (The first half holds, the second does not: no failure reaches the retry
\* manager, so retry_all finds nothing to retry and khewat 4 stays failed.)
C13_EndToEnd ==
    /\ C13_FirstPass
    /\ rlast.op = "retry_all" =>
           /\ data.completed = <<1, 2, 4, 5>>
           /\ data.failed = (StrKey(3) :> "No record found")

(***************************************************************************)
(* Properties of the validator, checked under ValidatorSpec.               *)
(***************************************************************************)
\* Whether the file starts with the PDF signature, from what the file was
\* made of.
SignatureMatches(f) == f.kind = "pdf" /\ f.size >= Len(PDF_HEADER) /\ f.readable

\* C28 as claimed: validate_pdf returns INVALID whenever the file is absent
\* or its header does not match the PDF signature, whatever its size;
\* WARNING only for an existing file with a matching header below the
\* minimum size; VALID otherwise.  (The size test comes first in the code:
\* a small file is WARNING whatever its header.)
C28_HeaderDecidesInvalid ==
    vresult.op = "validate_pdf" =>
        vresult.status =
            IF ~vfile.exists \/ ~SignatureMatches(vfile) THEN "invalid"
            ELSE IF vfile.size < MIN_SIZE_BYTES THEN "warning"
            ELSE "valid"

\* C28 as amended: INVALID when the file is absent, or is at least the
\* minimum size and its header does not match the signature (or cannot be
\* read); WARNING for every existing file below the minimum size, whatever
\* its header; VALID otherwise.
C28_SizeBeforeHeader ==
    vresult.op = "validate_pdf" =>
        vresult.status =
            IF ~vfile.exists THEN "invalid"
            ELSE IF vfile.size < MIN_SIZE_BYTES THEN "warning"
            ELSE IF ~SignatureMatches(vfile) THEN "invalid"
            ELSE "valid"

\* C28 witness: a small HTML file was given WARNING.
C28_SmallHtmlWarned ==
    /\ vresult.op = "validate_pdf"
    /\ vfile.exists /\ vfile.kind = "html" /\ vfile.size = TailBytes
    /\ vresult.status = "warning"

\* C29: without a structural parser validate_pdf_deep returns what
\* validate_pdf returns, except WARNING when the end-of-file marker is
\* missing; it never returns VALID for a file for which validate_pdf returns
\* WARNING or INVALID.  (The code does not keep this: a WARNING of the basic
\* check is dropped, so a file below the minimum size that is shorter than
\* 128 bytes, or has the marker, is VALID.)
C29_DeepOnlyAddsChecks ==
    (vresult.op = "validate_pdf_deep" /\ ~vresult.parser_used) =>
        /\ vresult.status =
              IF ValidatePdfStatus(vfile) # "invalid" /\ ~vfile.eof
              THEN "warning" ELSE ValidatePdfStatus(vfile)
        /\ ValidatePdfStatus(vfile) \in {"warning", "invalid"}
              => vresult.status # "valid"

(***************************************************************************)
(* Properties of the session manager, checked under SessionSpec.           *)
(***************************************************************************)
\* C30: the manager starts ACTIVE; mark_expired moves to EXPIRED;
\* mark_refreshing moves to REFRESHING from EXPIRED and changes nothing in
\* ACTIVE or REFRESHING; update_cookie moves to ACTIVE from any state and
\* replaces the cookie; nothing else changes the state or the cookie
\* (check_and_handle_response changes it only by the mark_expired it makes
\* for an expired response).
C30_StateTransitions ==
    /\ [](/\ sess.state \in {"active", "expired", "refreshing"}
          /\ slast.op = "none" => sess.state = "active"
          /\ sess.active_event <=> sess.state = "active")
    /\ [][sess'.ops = sess.ops + 1 =>
            /\ slast'.before = sess.state
            /\ CASE slast'.op = "mark_expired" ->
                      sess'.state = "expired" /\ sess'.cookie = sess.cookie
                 [] slast'.op = "mark_refreshing" ->
                      /\ sess'.state = IF sess.state = "expired" THEN "refreshing"
                                       ELSE sess.state
                      /\ sess'.cookie = sess.cookie
                 [] slast'.op = "update_cookie" ->
                      sess'.state = "active" /\ sess'.cookie = slast'.arg
                 [] slast'.op = "check_and_handle_response" ->
                      /\ sess'.state = IF slast'.ret = "true" THEN "expired"
                                       ELSE sess.state
                      /\ sess'.cookie = sess.cookie
                 [] OTHER ->
                      sess'.state = sess.state /\ sess'.cookie = sess.cookie]_vars

\* C30 witness: the manager went ACTIVE, EXPIRED, REFRESHING and back to
\* ACTIVE with a new cookie, and mark_refreshing then changed nothing.
C30_RefreshedThenRefreshingIgnored ==
    /\ slast.op = "mark_refreshing"
    /\ slast.before = "active"
    /\ sess.state = "active"
    /\ sess.cookie = "cookie1"
    /\ sess.expired_callbacks = 1
    /\ sess.refreshed_callbacks = 1
    /\ sess.ops = 4

(***************************************************************************)
(* Properties of download_nakal's effect on the form flag, under RunSpec.  *)
(***************************************************************************)
\* Worker w's download_nakal call returns in this step.
NakalStep(w) ==
    /\ rpc = "workers"
    /\ wk[w].pc = "download_nakal"
    /\ wk'[w] # wk[w]

\* What the call recorded for its khewat: "" when it recorded nothing (the
\* session-expired return), "complete", or the error text of mark_failed.
NakalRecorded(w) ==
    LET khewat == batches[w][wk[w].i]
    IN  IF clock' = clock THEN ""
        ELSE IF khewat \in Range(data'.completed) THEN "complete"
        ELSE data'.failed[StrKey(khewat)]

\* C25 as claimed: download_nakal clears the form flag after a successful
\* fetch and after a generic error page, and changes it in no other case.
\* (It also clears it after an unexpected small response, which falls
\* through to line 666.)
C25_FlagClearedOnSuccessOrErrorPage ==
    [][\A w \in DOMAIN wk :
          NakalStep(w) =>
              IF NakalRecorded(w) \in {"complete", "Error page - needs retry"}
              THEN ~wk'[w].form_initialized
              ELSE wk'[w].form_initialized = wk[w].form_initialized]_vars

\* C25 as amended: the flag is cleared after a successful fetch, after a
\* generic error page and after an unexpected small response; it is left as
\* it was after a timeout, a non-200 status, a "no record" response, a
\* session-expired response and any other exception.
C25_FlagClearedAlsoOnSmallResponse ==
    [][\A w \in DOMAIN wk :
          NakalStep(w) =>
              IF NakalRecorded(w) \in {"complete", "Error page - needs retry",
                                       "Small response: 120 bytes"}
              THEN ~wk'[w].form_initialized
              ELSE /\ NakalRecorded(w) \in {"", "Timeout", "HTTP 500",
                                            "No record found", "Connection aborted"}
                   /\ wk'[w].form_initialized = wk[w].form_initialized]_vars

\* C25 witness: a worker's last request got a small response, and its form
\* flag is cleared.
C25_SmallResponseClearedFlag ==
    \E w \in DOMAIN wk :
        /\ wk[w].pc = "loop"
        /\ wk[w].i > 1
        /\ batches[w][wk[w].i - 1] \in wk[w].tried
        /\ StrKey(batches[w][wk[w].i - 1]) \in DOMAIN data.failed
        /\ data.failed[StrKey(batches[w][wk[w].i - 1])] = "Small response: 120 bytes"
        /\ ~wk[w].form_initialized

(***************************************************************************)
(* Properties of the process exit status, checked under MainSpec.          *)
(***************************************************************************)
\* C27: after a run the exit status is non-zero whenever an id of the range
\* ended failed or still pending, and zero only when every id was
\* completed.  (main() never sets a status: it is 0 after every run.)
C27_ExitStatusReflectsOutcome ==
    exit_status # -1 =>
        (exit_status = 0 <=>
            \A k \in khewat_start..khewat_end : k \in Range(data.completed))

(***************************************************************************)
(* Properties of setup_form_selections, checked under FormSpec.            *)
(***************************************************************************)
\* The selections postback k is to carry, written out.
ExpectedSelections ==
    <<[a |-> "RdobtnKhewat", ddldname |-> "-1", ddltname |-> "", ddlvname |-> "",
       ddlPeriod |-> ""],
      [a |-> "RdobtnKhewat", ddldname |-> "17", ddltname |-> "", ddlvname |-> "",
       ddlPeriod |-> ""],
      [a |-> "RdobtnKhewat", ddldname |-> "17", ddltname |-> "102", ddlvname |-> "",
       ddlPeriod |-> ""],
      [a |-> "RdobtnKhewat", ddldname |-> "17", ddltname |-> "102",
       ddlvname |-> "02532", ddlPeriod |-> ""],
      [a |-> "RdobtnKhewat", ddldname |-> "17", ddltname |-> "102",
       ddlvname |-> "02532", ddlPeriod |-> "2023-2024"]>>

ExpectedTargets == <<"RdobtnKhewat", "ddldname", "ddltname", "ddlvname", "ddlPeriod">>

HasTokens(r) == r.vs # "none" /\ r.vsg # "none"

\* C26: the postbacks go out in the order radio, district, tehsil, village,
\* period, each with the cumulative selections; postback k+1 exists only
\* when the response to postback k was parsed and carries the tokens of that
\* response; the first response without tokens ends the call with False and
\* no further postback; the flag is set only after five parsed responses
\* with the khewat dropdown in the last.
C26_PostbackSequence ==
    LET sent == form.sent
        responses == form.responses
    IN  /\ Len(sent) <= 5
        /\ Len(responses) <= Len(sent)
        /\ Len(sent) <= Len(responses) + 1
        /\ \A k \in DOMAIN sent :
               /\ sent[k].event_target = ExpectedTargets[k]
               /\ sent[k].extra_data = ExpectedSelections[k]
        /\ \A k \in DOMAIN sent :
               k > 1 =>
                   /\ HasTokens(responses[k - 1])
                   /\ sent[k].viewstate = responses[k - 1].vs
                   /\ sent[k].viewstate_generator = responses[k - 1].vsg
                   /\ IF responses[k - 1].ev = "none"
                      THEN ~sent[k].has_event_validation
                      ELSE /\ sent[k].has_event_validation
                           /\ sent[k].event_validation = responses[k - 1].ev
        /\ \A k \in DOMAIN responses :
               ~HasTokens(responses[k]) =>
                   /\ form.pc = "returned_false"
                   /\ Len(responses) = k
                   /\ Len(sent) = k
        /\ form.pc = "await" => Len(sent) = Len(responses) + 1
        /\ form.form_initialized <=> form.pc = "returned_true"
        /\ form.pc = "returned_true" <=>
               /\ Len(responses) = 5
               /\ \A k \in DOMAIN responses : HasTokens(responses[k])
               /\ responses[5].selector

\* C26 witness: the call returned True after five postbacks whose tokens
\* changed from response to response, one of them without event validation.
C26_FivePostbacksDone ==
    /\ form.pc = "returned_true"
    /\ form.form_initialized
    /\ Len(form.sent) = 5
    /\ form.sent[1].viewstate = "vs0"
    /\ form.sent[2].viewstate = "vsA"
    /\ form.sent[3].viewstate = "vsB"
    /\ ~form.sent[4].has_event_validation
    /\ form.sent[5].has_event_validation

\* C26, the abort: the third response had no tokens, the call returned
\* False and three postbacks were sent.
C26_AbortedAtTehsil ==
    /\ form.pc = "returned_false"
    /\ Len(form.responses) = 3
    /\ Len(form.sent) = 3
    /\ ~form.form_initialized

(***************************************************************************)
(* Properties of the tracker's lock, checked under LockSpec.               *)
(***************************************************************************)
\* One call applied to the tracker on its own: the sequential meaning of
\* mark_complete, mark_failed and flush.
SequentialCall(s, c) ==
    LET d == CASE c.op = "mark_complete" -> MarkCompleteData(s.d, c.k, c.b)
               [] c.op = "mark_failed" -> MarkFailedData(s.d, c.k, c.e)
               [] OTHER -> s.d
        u == IF c.op = "flush" THEN s.unsaved ELSE s.unsaved + 1
        saves == IF c.op = "flush" THEN u > 0 ELSE u >= save_interval
    IN  [d |-> d, unsaved |-> IF saves THEN 0 ELSE u,
         saved |-> IF saves THEN d ELSE s.saved,
         nsaves |-> IF saves THEN s.nsaves + 1 ELSE s.nsaves]

RECURSIVE SequentialRun(_, _)
SequentialRun(s, cs) ==
    IF cs = <<>> THEN s ELSE SequentialRun(SequentialCall(s, Head(cs)), Tail(cs))

SequentialResult ==
    SequentialRun([d |-> DefaultData, unsaved |-> 0, saved |-> DefaultData,
                   nsaves |-> 0], calls)

NoDuplicates(s) == \A i, j \in DOMAIN s : s[i] = s[j] => i = j

InSave(t) == th[t].pc \in SavePositions

Inside(t) == th[t].pc \notin {"idle", "waiting"}

\* C21: whenever no thread is inside a call (or the one inside has only the
\* lock left to release), completed, failed, the stats
\* and the unsaved counter are those of the calls made so far run one after
\* the other in the order they took the lock, the progress file holds what
\* the last save of that run wrote, completed has no duplicate and
\* download_count counts it; and at no time are two threads inside
\* _atomic_save, or inside any call, together.
C21_Linearizable ==
    /\ \A t, u \in Threads : Inside(t) /\ Inside(u) => t = u
    /\ \A t, u \in Threads : InSave(t) /\ InSave(u) => t = u
    /\ \A t \in Threads : Inside(t) => lock = t
    /\ NoDuplicates(data.completed)
    /\ (lock = 0 \/ \E t \in Threads : th[t].pc = "release") =>
          LET r == SequentialResult
          IN  /\ data.completed = r.d.completed
              /\ data.failed = r.d.failed
              /\ data.download_count = r.d.download_count
              /\ data.bytes_downloaded = r.d.bytes_downloaded
              /\ unsaved = r.unsaved
              /\ data.download_count = Len(data.completed)
              /\ data.bytes_downloaded = MaxBytes * Len(data.completed)
              /\ clock = r.nsaves
              /\ r.nsaves > 0 =>
                    /\ fs[filepath].exists /\ fs[filepath].complete
                    /\ fs[filepath].content.completed = r.saved.completed
                    /\ fs[filepath].content.failed = r.saved.failed
                    /\ fs[filepath].content.download_count = r.saved.download_count

\* C21 witness: a thread that had to wait for the lock while another
\* thread was inside has finished a mark_complete of a khewat that an
\* earlier call had completed, as the third call; a save has run, the
\* khewat is counted once, and the record is that of the sequential run.
C21_ContendedCallsDone ==
    \E t \in Threads :
        /\ th[t].pc = "release"
        /\ th[t].op = "mark_complete"
        /\ th[t].blocked
        /\ Len(calls) = 3
        /\ \E i \in 1..2 : calls[i].op = "mark_complete" /\ calls[i].k = th[t].k
        /\ fs[filepath].exists
        /\ data.download_count = 1
        /\ data.completed = SequentialResult.d.completed
        /\ data.failed = SequentialResult.d.failed
        /\ unsaved = SequentialResult.unsaved

(***************************************************************************)
(* Properties of the limiter's lock, checked under WaitSpec.               *)
(***************************************************************************)
HoldsLimiterLock(t) == wpc[t].pc \in {"body", "release"}

\* C24: a thread holds the limiter's lock exactly while it is in the locked
\* part of a call, so wait() computes under the lock and a sleeping thread
\* never holds it; while any call is under way some step of some call can
\* be taken (no deadlock), and a thread waiting for the lock while others
\* sleep can take it as soon as the thread in a locked part, if any, has
\* left it.
C24_SleepOutsideLock ==
    /\ \A t \in Threads : HoldsLimiterLock(t) <=> llock = t
    /\ \A t \in Threads : Sleeping(t) => llock # t
    /\ \A t \in Threads : Sleeping(t) => wpc[t].wait_time > 0
    /\ (\E t \in Threads : wpc[t].pc # "idle") => ENABLED WaitProgress
    /\ \A t \in Threads :
           (wpc[t].pc = "acquire" /\ \A u \in Threads : ~HoldsLimiterLock(u))
               => ENABLED (LimiterAcquire(t) /\ WaitOthersUnchanged)

\* C24 witness: one thread is asleep in wait(), and while it slept other
\* calls of each kind (a whole record_response, a whole stats, the locked
\* part of a wait) ran from acquire to release.
C24_CallsCompletedDuringSleep ==
    /\ \E t \in Threads : Sleeping(t)
    /\ llock = 0
    /\ wlast = {"wait", "record_response", "stats"}

(***************************************************************************)
(* Properties of the session manager under threads, checked under          *)
(* SessionThreadsSpec.                                                     *)
(***************************************************************************)
\* All calls a thread is in, outer and inner.
Frames == {<<t, i>> : t \in Threads, i \in 1..2}

FrameAt(x) == sth[x[1]].stack[x[2]]

LiveFrames == {x \in Frames : x[2] <= Len(sth[x[1]].stack)}

LockedPcs == {"me_test", "me_clear", "mr_test", "uc_state", "uc_set", "read", "release"}

Quiescent == \A t \in Threads : sth[t].stack = <<>>

\* C31: every change of the state to EXPIRED has exactly one
\* on_session_expired call, delivered or about to be, and a mark_expired
\* that found the state EXPIRED invokes none, however many threads call
\* mark_expired together; when no call is under way the callback has run
\* once per expiry.
C31_OneCallbackPerExpiry ==
    LET due == {x \in LiveFrames :
                   \/ FrameAt(x).pc = "me_clear"
                   \/ /\ FrameAt(x).cb = "expired"
                      /\ FrameAt(x).pc \in {"release", "callback"}}
    IN  /\ sess.expired_callbacks + Cardinality(due) = slog.expiries
        /\ Quiescent => sess.expired_callbacks = slog.expiries
        /\ \A x \in LiveFrames :
               (/\ FrameAt(x).op = "mark_expired"
                /\ FrameAt(x).pc \in {"release", "callback", "in_callback"}
                /\ FrameAt(x).change = "none") => FrameAt(x).cb = "none"

\* C31 witness: two threads are in mark_expired at once; the first changed
\* the state and is about to invoke the callback, the second found the
\* state EXPIRED and invokes nothing.
C31_TwoThreadsOneCallback ==
    \E t, u \in Threads :
        /\ t # u
        /\ TopPc(t) = "callback" /\ Top(t).op = "mark_expired"
        /\ Top(t).cb = "expired"
        /\ TopPc(u) = "release" /\ Top(u).op = "mark_expired"
        /\ Top(u).cb = "none"
        /\ slog.expiries = 1

\* C32: a thread holds the manager's lock exactly in the locked part of a
\* call, so never when it invokes a callback; a call made by a callback
\* that waits for the lock finds it free or held by a thread that can go on
\* and release it; and the state an on_session_expired callback reads is
\* EXPIRED unless another thread took the lock since the mark_expired
\* released it.
C32_CallbacksOutsideLock ==
    /\ \A t \in Threads : (slock = t) <=> (TopPc(t) \in LockedPcs)
    /\ \A t \in Threads : TopPc(t) = "callback" => slock # t
    /\ (\E t \in Threads : TopPc(t) = "acquire") => ENABLED SessionLockSteps
    /\ \A t \in Threads :
           (sth[t].seen # "none" /\ ~sth[t].intervened) => sth[t].seen = "expired"

\* C32 witness: an on_session_expired callback has read manager.state
\* under the lock and got EXPIRED, with no other thread in between.
C32_CallbackReadState ==
    \E t \in Threads :
        /\ Len(sth[t].stack) = 2
        /\ sth[t].stack[1].op = "mark_expired"
        /\ Top(t).op = "state" /\ Top(t).pc = "release"
        /\ sth[t].seen = "expired"
        /\ ~sth[t].intervened

\* What can be said of every finished wait_for_valid_session: it returned
\* at once only with the session ACTIVE, it raised only after blocking, and
\* after blocking it returned only if an update_cookie came while it was
\* blocked; a thread stays blocked only while the session is not ACTIVE.
WaitOutcomes ==
    /\ slog.wait.kind = "returned" /\ ~slog.wait.blocked
           => slog.wait.settled = "active"
    /\ slog.wait.kind = "raised" => slog.wait.blocked /\ ~slog.wait.refreshed
    /\ slog.wait.kind = "returned" /\ slog.wait.blocked => slog.wait.refreshed
    /\ \A t \in Threads :
           TopPc(t) = "blocked" => ~sess.active_event /\ slog.settled # "active"

\* C33 as claimed: in addition, a wait never returns normally while no
\* update_cookie has come since the last mark_expired.  (A waiter woken by
\* update_cookie returns normally even if a mark_expired has followed
\* before it ran again.)
C33_NeverReturnsWhileExpired ==
    /\ WaitOutcomes
    /\ slog.wait.kind = "returned" => slog.wait.settled = "active"

\* C33, amended: wait_for_valid_session returns at once when the session
\* is ACTIVE; otherwise it blocks, returns normally only if an
\* update_cookie came while it was blocked, and raises when the timeout
\* passes first.
C33_ReturnsOnlyAfterRefresh == WaitOutcomes

\* C33 witness: a wait that blocked on an expired session has returned
\* after an update_cookie, the session being ACTIVE.
C33_BlockedThenReleased ==
    /\ slog.wait.kind = "returned"
    /\ slog.wait.blocked
    /\ slog.wait.refreshed
    /\ slog.wait.settled = "active"

\* C37 as claimed: in every state the event is set exactly when the state
\* is ACTIVE.  (Between lines 130 and 131, and between lines 159 and 160,
\* it is not.)
C37_EventIffActive == sess.active_event <=> sess.state = "active"

\* C37, amended: whenever no thread is in the locked part of a call, the
\* event is set exactly when the state is ACTIVE, and a thread is blocked
\* in wait_for_valid_session only while the event is clear.
C37_EventIffActiveOutsideLock ==
    /\ slock = 0 => (sess.active_event <=> sess.state = "active")
    /\ \A t \in Threads : TopPc(t) = "blocked" => ~sess.active_event

\* C37 witness: the lock is free, the state is REFRESHING, the event is
\* clear and a thread is blocked in wait_for_valid_session.
C37_WaiterHeldWhileRefreshing ==
    /\ slock = 0
    /\ sess.state = "refreshing"
    /\ ~sess.active_event
    /\ \E t \in Threads : TopPc(t) = "blocked"

\* C38: every callback delivered so far was the one of the oldest state
\* change still without its callback (an expired callback for a change to
\* EXPIRED, a refreshed callback for an update_cookie), and when no call is
\* under way the callback delivered last agrees with the state.
C38_CallbacksInTransitionOrder ==
    /\ slog.inorder
    /\ (Quiescent /\ slog.lastcb # "none") =>
           (slog.lastcb = "refreshed" <=> sess.state = "active")

(***************************************************************************)
(* Properties of the two fetch loops, checked under LoopsSpec.             *)
(***************************************************************************)
\* The id worker w has reached is still to be fetched.
ReachedPending(w) ==
    /\ wk[w].i <= Len(batches[w])
    /\ batches[w][wk[w].i] \notin Range(data.completed)

\* One step of worker w's loop (lines 785-805): with the flag false and an
\* id to fetch it goes to initialize_form, from there only to
\* setup_form_selections or to a stop, from there only to download_nakal
\* or to a stop; an id found in completed is passed over with no request;
\* a worker that has stopped does nothing more.
WorkerStepAsClaimed(w) ==
    /\ (wk[w].pc = "loop" /\ ReachedPending(w) /\ ~wk[w].form_initialized)
           => wk'[w].pc = "initialize_form"
    /\ (wk[w].pc = "loop" /\ wk[w].i <= Len(batches[w]) /\ ~ReachedPending(w))
           => /\ wk'[w] = [wk[w] EXCEPT !.i = @ + 1]
              /\ UNCHANGED trackerVars
    /\ wk[w].pc = "initialize_form"
           => wk'[w].pc \in {"setup_form_selections", "stopped_init", "crashed"}
    /\ wk[w].pc = "setup_form_selections"
           => wk'[w].pc \in {"download_nakal", "stopped_setup", "crashed"}
    /\ wk'[w].pc = "download_nakal" => wk[w].pc \in {"loop", "setup_form_selections"}
    /\ wk'[w].tried # wk[w].tried => wk[w].pc = "download_nakal"

\* One step of run()'s loop (lines 711-732).
SeqStepAsClaimed ==
    /\ (rpc = "seq_loop" /\ wk[1].i <= Len(pending) /\ ~wk[1].form_initialized)
           => rpc' = "seq_reinitialize"
    /\ rpc = "seq_reinitialize" => rpc' \in {"seq_resetup", "summary", "seq_raised"}
    /\ rpc = "seq_resetup" => rpc' \in {"seq_download_nakal", "summary", "seq_raised"}
    /\ rpc' = "seq_download_nakal" => rpc \in {"seq_loop", "seq_resetup"}
    /\ wk'[1].tried # wk[1].tried => rpc = "seq_download_nakal"

\* C35: download_nakal is called only with the form-ready flag true, in the
\* worker loops and in the sequential loop; with the flag false the loop
\* runs initialize_form and then setup_form_selections and stops, fetching
\* nothing more, when either does not return true; a worker passes over an
\* id that is in completed when it reaches it, without a request.
C35_FetchOnlyWithFormReady ==
    /\ [](\A w \in DOMAIN wk : wk[w].pc = "download_nakal" => wk[w].form_initialized)
    /\ [](rpc = "seq_download_nakal" => wk[1].form_initialized)
    /\ [][\A w \in DOMAIN wk :
             IF WorkerEnded(w) THEN wk'[w] = wk[w]
             ELSE rpc = "workers" /\ wk'[w] # wk[w] => WorkerStepAsClaimed(w)]_vars
    /\ [][IF rpc \in {"seq_returned", "seq_raised", "summary", "done"}
          THEN wk' = wk
          ELSE rpc \in {"seq_loop", "seq_reinitialize", "seq_resetup",
                        "seq_download_nakal"} => SeqStepAsClaimed]_vars

\* C35 witness: a worker whose first fetch succeeded (which cleared the
\* flag) has set the form up again and is about to fetch its next id, while
\* another worker has stopped because its form setup failed.
C35_SecondFetchAfterSetup ==
    \E w, v \in DOMAIN wk :
        /\ wk[w].pc = "download_nakal"
        /\ wk[w].form_initialized
        /\ wk[w].ok # {}
        /\ wk[v].pc = "stopped_setup"
        /\ wk[v].tried = {}

(***************************************************************************)
(* Properties of one download_nakal call, checked under NakalFaultSpec.    *)
(***************************************************************************)
\* C36: download_nakal never raises; when it has returned True the
\* progress store has had exactly one update for the id, mark_complete
\* after a success and mark_failed with the error of the branch otherwise;
\* when it has returned False (session expired) the store is as it was.
\* (When the save triggered by the update fails, the except clause makes a
\* second update, and when that one's save fails too the exception leaves
\* download_nakal.)
C36_OneUpdateNeverRaises ==
    LET k == NakalKhewat
        o == wk[1].pc
    IN  /\ rpc # "nakal_raised"
        /\ rpc = "nakal_true" =>
               /\ clock = 2
               /\ IF NakalMarks(o) = "complete"
                  THEN /\ k \in Range(data.completed)
                       /\ StrKey(k) \notin DOMAIN data.failed
                  ELSE /\ k \notin Range(data.completed)
                       /\ StrKey(k) \in DOMAIN data.failed
                       /\ data.failed[StrKey(k)] = NakalError(o)
        /\ rpc = "nakal_false" =>
               /\ o = "expired"
               /\ clock = 1
               /\ data = loaded

(***************************************************************************)
(* Properties of the slots wait() hands out, checked under WaitSpec.       *)
(***************************************************************************)
\* Thread t's wait() computes its slot in this step (lines 51-65); the slot
\* is the new _last_request_time, the slot handed out before it the old.
SlotHandedOut(t) ==
    /\ wpc[t].pc = "body"
    /\ wpc[t].op = "wait"
    /\ wpc'[t].pc = "release"

\* C34: the slot wait() hands out is never earlier than backoff_until and
\* never earlier than the slot handed out before it plus current_delay,
\* whichever threads call and whether or not a backoff period is active.
\* (In a backoff period the slot is backoff_until, whatever the slot
\* before was: lines 54-55.)
C34_SlotsKeepBackoffAndDelay ==
    [][\A t \in Threads :
          SlotHandedOut(t) =>
              /\ last_request_time' >= backoff_until * 10
              /\ last_request_time' >= last_request_time + current_delay]_vars

(***************************************************************************)
(* Properties of a FailedItem's classification, checked under RetrySpec.   *)
(***************************************************************************)
\* This step is a record_failure for an id that already has an item.
RecordsAgain(i) ==
    /\ rlast'.op = "record_failure"
    /\ rops' = rops + 1
    /\ rlast'.id = failures[i].khewat

\* C39: an item's failure_type is the classification of the error text it
\* was created with; a later record_failure for the same id replaces the
\* error text and adds one to retry_count and changes nothing else; so
\* get_retryable returns an id exactly when its first text was transient
\* and its retry_count is below max_retries, whatever its present text
\* says, and never an id whose first text was permanent.
C39_ClassificationFixedAtFirst ==
    /\ [](\A i \in DOMAIN failures :
             failures[i].failure_type = ClassifyError(failures[i].first))
    /\ [][\A i \in DOMAIN failures :
             RecordsAgain(i) =>
                 /\ Len(failures') = Len(failures)
                 /\ \E e \in FailureTexts :
                        failures' = [failures EXCEPT ![i].error = e,
                                                     ![i].retry_count = @ + 1]]_vars
    /\ [](rlast.op = "get_retryable" =>
             \A i \in DOMAIN failures :
                 failures[i].khewat \in Range(rlast.ret)
                     <=> /\ ClassifyError(failures[i].first) = "transient"
                         /\ failures[i].retry_count < max_retries)

\* C39 witness: get_retryable has returned an id whose first failure was a
\* timeout and whose present text, of a later record_failure, is "No record
\* found", and has not returned an id first recorded as "No record found".
C39_TransientFirstStillRetried ==
    /\ rlast.op = "get_retryable"
    /\ \E i, j \in DOMAIN failures :
          /\ failures[i].first = Text_Timeout
          /\ failures[i].error = Text_NoRecordFound
          /\ failures[i].retry_count = 1
          /\ failures[i].failure_type = "transient"
          /\ failures[i].khewat \in Range(rlast.ret)
          /\ failures[j].first = Text_NoRecordFound
          /\ failures[j].khewat \notin Range(rlast.ret)

(***************************************************************************)
(* Properties of a run on the progress file of an earlier run, checked     *)
(* under RunSpec.                                                          *)
(***************************************************************************)
\* The ids of the range that the loaded file has in failed and not in
\* completed.
FailedBefore ==
    {k \in khewat_start..khewat_end :
        StrKey(k) \in DOMAIN loaded.failed /\ k \notin Range(loaded.completed)}

Dispatched == rpc \in {"workers", "summary", "raised", "done"}

\* C40: get_pending does not look at the failed map: pending is every id
\* of the range that is not in completed, so every id the file has in
\* failed and not in completed, whatever its error, is pending again and in
\* some worker's batch; the worker that reaches it does not pass it over,
\* and when all workers have finished their batches every such id has been
\* fetched again.
C40_FailedIdsPendingAgain ==
    /\ [](Dispatched =>
            /\ Range(pending) =
                 {k \in khewat_start..khewat_end : k \notin Range(loaded.completed)}
            /\ \A k \in FailedBefore : \E w \in DOMAIN wk : k \in Range(batches[w]))
    /\ []((Dispatched /\ \A w \in DOMAIN wk : wk[w].pc = "finished") =>
            \A k \in FailedBefore : \E w \in DOMAIN wk : k \in wk[w].tried)
    /\ [][\A w \in DOMAIN wk :
             (/\ rpc = "workers"
              /\ wk[w].pc = "loop"
              /\ wk[w].i <= Len(batches[w])
              /\ batches[w][wk[w].i] \in FailedBefore
              /\ wk'[w] # wk[w])
                 => wk'[w].pc \in {"initialize_form", "download_nakal"}]_vars

\* C40 witness: the file had the last id of the range in failed as "No
\* record found"; the run has fetched it again, this time with success,
\* and has ended.
C40_PermanentFailureFetchedAgain ==
    /\ rpc = "done"
    /\ StrKey(khewat_end) \in DOMAIN loaded.failed
    /\ loaded.failed[StrKey(khewat_end)] = "No record found"
    /\ \E w \in DOMAIN wk : khewat_end \in wk[w].ok
    /\ khewat_end \in Range(data.completed)

====
